---- MODULE Spec2Model ----
(***************************************************************************)
(* Tracker resolution, result normalisation and cache ledger of autotracko *)
(* (tracker.ts, scanner.ts, utils/normalizeResults.ts, cache.ts).          *)
(*                                                                         *)
(* Domain strings are sequences of one-character strings, so that          *)
(* toLowerCase, the /^www\./ replacement and endsWith are computed         *)
(* character by character.                                                 *)
(***************************************************************************)
EXTENDS Integers, Sequences, FiniteSets, TLC

VARIABLES
    ndPc,        \* normalizeDomain driver: "input" | "done"
    ndIn,        \* the string handed to normalizeDomain
    ndOut,       \* normalizeDomain(ndIn)
    ndTwice,     \* normalizeDomain(normalizeDomain(ndIn))
    trPc,        \* tracker driver: "load" | "ready" | "resolved"
    trackerList, \* the parsed registry handed to prepareTrackerData
    prepared,    \* PreparedTrackerData | null, as None or Some(record)
    observed,    \* the domain handed to findTrackerInfo
    found,       \* TrackerInfo | null returned, as None or Some(info)
    rsPc,        \* results driver: "collect" | "normalized"
    intermediateResults, \* ScanResult[] handed to normalizeResults
    finalOutput, \* FinalOutput returned by normalizeResults, None before
    caPc,        \* ledger driver: "start" | "loaded" | "checked"
    cacheFile,   \* the cache file readCacheFromFile was given
    currentCache, \* the current ledger, DomainCacheEntry[]
    clock,       \* number of upserts so far; the time of the next one
    upserted,    \* the domains handed to updateOrAddCacheEntry so far
    asked,       \* the domain handed to checkDomainProcessed
    answer,      \* what checkDomainProcessed returned
    arrays,      \* the ledger arrays allocated so far, by reference
    cacheRef,    \* the array the variable currentCache refers to, 0 before
    snapshots,   \* every ledger returned so far: its array and its entries then
    lastEntry,   \* the entry of the last updateOrAddCacheEntry call, None before
    runPc,       \* index.ts: "idle" (no process) | "loop" (in the domain loop)
                 \* | "scanning" (awaiting scanWebsite) | "normalized"
    cacheEnabled, \* options.cache !== false of the run
    domainInputs, \* the validated URLs of the domains file of the run
    cursor,      \* number of domain inputs the loop has handled
    resultsFile, \* the results file on disk: None or Some(FinalOutput)
    startCache,  \* the ledger the run read when it started
    decisions,   \* per handled input: its hostname, whether it was scanned,
                 \* and the ledger the decision was taken with
    processedCount, \* the loop's count of scans that returned without error
    skippedCount,   \* the loop's count of inputs it skipped
    errorCount,     \* the loop's count of scans that returned an error or threw
    anPc,        \* analytics driver: "load" | "collect" | "done"
    data,        \* the FinalOutput handed to generateAnalyticsInternal
    analytics,   \* what the call gave: None before, else its outcome
    rawAnalytics, \* what generateAnalytics gave for the raw results
    wrPc,        \* per concurrent run: "start" | "loaded" | "updated" | "written"
    wrEntry,     \* per concurrent run: the cache entry of the site it scans
    wrCache,     \* per concurrent run: its currentCache
    installs     \* the writes of the cache file so far, in order: the run,
                 \* the ledger it had loaded and the ledger it wrote

ndVars == <<ndPc, ndIn, ndOut, ndTwice>>
trVars == <<trPc, trackerList, prepared, observed, found>>
rsVars == <<rsPc, intermediateResults, finalOutput>>
caVars == <<caPc, cacheFile, currentCache, clock, upserted, asked, answer,
            arrays, cacheRef, snapshots, lastEntry>>
runVars == <<runPc, cacheEnabled, domainInputs, cursor, resultsFile,
             startCache, decisions, processedCount, skippedCount, errorCount>>
anVars == <<anPc, data, analytics, rawAnalytics>>
wrVars == <<wrPc, wrEntry, wrCache, installs>>
vars == <<ndVars, trVars, rsVars, caVars, runVars, anVars, wrVars>>

(***************************************************************************)
(* Bounds                                                                  *)
(***************************************************************************)
\* longest string typed into normalizeDomain; "www.www." has 8 characters
MaxDomainLen == 8
\* most entries of the tracker registry
MaxTrackers == 2
\* longest observed domain, without its "www." prefix
MaxObservedLen == 5
\* most raw scan results of one batch
MaxResults == 2
\* most trackers listed by one raw scan result
MaxSiteTrackers == 2
\* most resource URLs collected from one page
MaxUrls == 2
\* most entries of a cache file
MaxFileEntries == 2
\* most calls of updateOrAddCacheEntry in one run
MaxUpserts == 3
\* most entries of the domains file
MaxInputs == 2
\* most trackers of the dictionary the rankings are cut from
MaxRanked == 21
\* most trackers the second site of that dataset references
MaxRepeated == 2

(***************************************************************************)
(* Strings                                                                 *)
(***************************************************************************)
\* the characters domain strings are made of: a letter that starts "www.",
\* its upper-case form, the label separator and another letter
Alphabet == {"w", "W", ".", "a"}

Null == "null"

Strs(alphabet, n) == UNION {[1..k -> alphabet] : k \in 0..n}

\* String.prototype.toLowerCase on one character of Alphabet
LowerChar(c) == IF c = "W" THEN "w" ELSE c

ToLowerCase(s) == [i \in 1..Len(s) |-> LowerChar(s[i])]

Www == <<"w", "w", "w", ".">>

StartsWith(s, p) == Len(s) >= Len(p) /\ SubSeq(s, 1, Len(p)) = p

EndsWith(s, p) ==
    Len(s) >= Len(p) /\ SubSeq(s, Len(s) - Len(p) + 1, Len(s)) = p

\* s.replace(/^www\./, ""): the anchored pattern matches at most once, at
\* index 0, and the match is replaced by the empty string
ReplaceLeadingWww(s) ==
    IF StartsWith(s, Www) THEN SubSeq(s, Len(Www) + 1, Len(s)) ELSE s

(***************************************************************************)
(* tracker.ts: normalizeDomain                                             *)
(***************************************************************************)
\* faulty variant: the prefix is removed before lower-casing, so "WWW." survives
normalizeDomain_stripFirst(domain) ==
    IF domain = <<>> THEN <<>> ELSE ToLowerCase(ReplaceLeadingWww(domain))

\* faulty variant: every leading "www." is removed, not exactly one
RECURSIVE normalizeDomain_stripAll(_)
normalizeDomain_stripAll(domain) ==
    IF domain = <<>> THEN <<>>
    ELSE LET l == ToLowerCase(domain)
         IN  IF StartsWith(l, Www)
             THEN normalizeDomain_stripAll(SubSeq(l, Len(Www) + 1, Len(l)))
             ELSE l

normalizeDomain(domain) ==
    IF domain = <<>> THEN <<>> ELSE ReplaceLeadingWww(ToLowerCase(domain))

(***************************************************************************)
(* Nullable values: null is None, a value x is Some(x)                     *)
(***************************************************************************)
None == <<>>

Some(x) == <<x>>

IsSome(o) == o # None

Get(o) == o[1]

(***************************************************************************)
(* types.ts: TrackerInfo, TrackerList                                      *)
(*                                                                         *)
(* A TrackerInfo is a record with its owner, its categories and whether it *)
(* carries a 'rules' attribute.  The 'trackers' object of a TrackerList is *)
(* the sequence of its (key, info) properties in property order, which for *)
(* domain keys (no key is an array index) is insertion order; 'shape'      *)
(* tells the malformed lists the validation of prepareTrackerData rejects. *)
(***************************************************************************)
TrackerInfo(owner, categories, rules) ==
    [owner |-> owner, categories |-> categories, rules |-> rules]

Shapes ==
    {"object", "null", "trackersMissing", "trackersNull", "trackersArray",
     "trackersString"}

TrackerList(shape, trackers) == [shape |-> shape, trackers |-> trackers]

EmptyTrackerList == TrackerList("object", <<>>)

\* Object.keys(trackers), as a set
OwnKeys(trackers) == {trackers[i].key : i \in 1..Len(trackers)}

\* Object.hasOwn(trackers, key)
HasOwn(trackers, key) == key \in OwnKeys(trackers)

\* trackers[key] for an own key
Property(trackers, key) ==
    trackers[CHOOSE i \in 1..Len(trackers) : trackers[i].key = key].info

(***************************************************************************)
(* Map<string, string>: a sequence of <<key, value>> pairs in insertion    *)
(* order; set on a key the map holds replaces its value in place.          *)
(***************************************************************************)
MapHas(m, k) == \E i \in 1..Len(m) : m[i][1] = k

MapGet(m, k) ==
    IF MapHas(m, k)
    THEN Some(m[CHOOSE i \in 1..Len(m) : m[i][1] = k][2])
    ELSE None

\* faulty variant: set on a key the map holds moves the key to the end
MapSet_moveToEnd(m, k, v) ==
    Append(SelectSeq(m, LAMBDA e : e[1] # k), <<k, v>>)

\* faulty variant: set on a key the map holds keeps the old value
MapSet_keepFirst(m, k, v) ==
    IF MapHas(m, k) THEN m ELSE Append(m, <<k, v>>)

MapSet(m, k, v) ==
    IF MapHas(m, k)
    THEN [i \in 1..Len(m) |-> IF m[i][1] = k THEN <<k, v>> ELSE m[i]]
    ELSE Append(m, <<k, v>>)

(***************************************************************************)
(* tracker.ts: prepareTrackerData                                          *)
(***************************************************************************)
RECURSIVE BuildNormalizedMap(_, _)
BuildNormalizedMap(trackers, n) ==
    IF n = 0 THEN <<>>
    ELSE MapSet(BuildNormalizedMap(trackers, n - 1),
                normalizeDomain(trackers[n].key), trackers[n].key)

\* faulty variant: a malformed list is kept as the original list
prepareTrackerData_keepsMalformed(list) ==
    IF list.shape # "object"
    THEN [originalList |-> list, normalizedMap |-> <<>>]
    ELSE [originalList |-> list,
          normalizedMap |-> BuildNormalizedMap(list.trackers, Len(list.trackers))]

prepareTrackerData(list) ==
    IF list.shape # "object"
    THEN [originalList |-> EmptyTrackerList, normalizedMap |-> <<>>]
    ELSE [originalList |-> list,
          normalizedMap |-> BuildNormalizedMap(list.trackers, Len(list.trackers))]

(***************************************************************************)
(* tracker.ts: findTrackerInfo                                             *)
(***************************************************************************)
\* the first entry of the map, in insertion order, whose non-empty key the
\* domain ends with after a "."; 0 when there is none
FirstSuffixMatch(normDomain, normalizedMap) ==
    LET hits == {i \in 1..Len(normalizedMap) :
                    /\ normalizedMap[i][1] # <<>>
                    /\ EndsWith(normDomain, <<".">> \o normalizedMap[i][1])}
    IN  IF hits = {} THEN 0 ELSE CHOOSE i \in hits : \A j \in hits : i <= j

OwnPropertyOrNull(trackers, key) ==
    IF HasOwn(trackers, key) THEN Some(Property(trackers, key)) ELSE None

\* faulty variant: endsWith(normTracker) without the "." before it
findTrackerInfo_plainSuffix(domain, preparedData) ==
    IF ~IsSome(preparedData) THEN None
    ELSE LET m == Get(preparedData).normalizedMap
             t == Get(preparedData).originalList.trackers
             normDomain == normalizeDomain(domain)
             exact == MapGet(m, normDomain)
             hits == {i \in 1..Len(m) : m[i][1] # <<>> /\ EndsWith(normDomain, m[i][1])}
         IN  IF Len(m) = 0 \/ normDomain = <<>> THEN None
             ELSE IF IsSome(exact) /\ Get(exact) # <<>>
                  THEN OwnPropertyOrNull(t, Get(exact))
                  ELSE IF hits = {} THEN None
                       ELSE OwnPropertyOrNull(
                                t, m[CHOOSE i \in hits : \A j \in hits : i <= j][2])

\* faulty variant: the most specific (longest) matching key wins, not the first
findTrackerInfo_longestSuffix(domain, preparedData) ==
    IF ~IsSome(preparedData) THEN None
    ELSE LET m == Get(preparedData).normalizedMap
             t == Get(preparedData).originalList.trackers
             normDomain == normalizeDomain(domain)
             exact == MapGet(m, normDomain)
             hits == {i \in 1..Len(m) :
                         /\ m[i][1] # <<>>
                         /\ EndsWith(normDomain, <<".">> \o m[i][1])}
         IN  IF Len(m) = 0 \/ normDomain = <<>> THEN None
             ELSE IF IsSome(exact) /\ Get(exact) # <<>>
                  THEN OwnPropertyOrNull(t, Get(exact))
                  ELSE IF hits = {} THEN None
                       ELSE OwnPropertyOrNull(
                                t, m[CHOOSE i \in hits :
                                        \A j \in hits : Len(m[i][1]) >= Len(m[j][1])][2])

\* faulty variant: an empty normalized domain is looked up like any other
findTrackerInfo_noEmptyCheck(domain, preparedData) ==
    IF ~IsSome(preparedData) THEN None
    ELSE LET originalList == Get(preparedData).originalList
             normalizedMap == Get(preparedData).normalizedMap
             normDomain == normalizeDomain(domain)
             exactMatchOriginalDomain == MapGet(normalizedMap, normDomain)
             first == FirstSuffixMatch(normDomain, normalizedMap)
         IN  IF Len(normalizedMap) = 0 THEN None
             ELSE IF /\ IsSome(exactMatchOriginalDomain)
                     /\ Get(exactMatchOriginalDomain) # <<>>
                  THEN OwnPropertyOrNull(originalList.trackers,
                                         Get(exactMatchOriginalDomain))
                  ELSE IF first = 0 THEN None
                       ELSE OwnPropertyOrNull(originalList.trackers,
                                              normalizedMap[first][2])

\* faulty variant: the suffix loop runs before the exact lookup
findTrackerInfo_suffixFirst(domain, preparedData) ==
    IF ~IsSome(preparedData) THEN None
    ELSE LET originalList == Get(preparedData).originalList
             normalizedMap == Get(preparedData).normalizedMap
             normDomain == normalizeDomain(domain)
             exactMatchOriginalDomain == MapGet(normalizedMap, normDomain)
             first == FirstSuffixMatch(normDomain, normalizedMap)
         IN  IF Len(normalizedMap) = 0 THEN None
             ELSE IF normDomain = <<>> THEN None
             ELSE IF first # 0
                  THEN OwnPropertyOrNull(originalList.trackers,
                                         normalizedMap[first][2])
                  ELSE IF /\ IsSome(exactMatchOriginalDomain)
                          /\ Get(exactMatchOriginalDomain) # <<>>
                       THEN OwnPropertyOrNull(originalList.trackers,
                                              Get(exactMatchOriginalDomain))
                       ELSE None

findTrackerInfo(domain, preparedData) ==
    IF ~IsSome(preparedData) THEN None
    ELSE LET originalList == Get(preparedData).originalList
             normalizedMap == Get(preparedData).normalizedMap
             normDomain == normalizeDomain(domain)
             exactMatchOriginalDomain == MapGet(normalizedMap, normDomain)
             first == FirstSuffixMatch(normDomain, normalizedMap)
         IN  IF Len(normalizedMap) = 0 THEN None
             ELSE IF normDomain = <<>> THEN None
             \* a string is truthy when it is not empty
             ELSE IF /\ IsSome(exactMatchOriginalDomain)
                     /\ Get(exactMatchOriginalDomain) # <<>>
                  THEN OwnPropertyOrNull(originalList.trackers,
                                         Get(exactMatchOriginalDomain))
                  ELSE IF first = 0 THEN None
                       ELSE OwnPropertyOrNull(originalList.trackers,
                                              normalizedMap[first][2])

(***************************************************************************)
(* types.ts: ScanResult, FinalOutput.  requestedUrl, finalUrl, timestamp   *)
(* and screenshotPath are copied as they are by every function below and   *)
(* read by none, and are left out.  A URL is a record telling whether      *)
(* new URL() accepts it and the host it was written with.                  *)
(***************************************************************************)
Url(valid, host) == [valid |-> valid, host |-> host]

ScanResult(domain, totalSize, resourceUrls, trackers, error, domainMetadata) ==
    [domain |-> domain, totalSize |-> totalSize, resourceUrls |-> resourceUrls,
     trackers |-> trackers, error |-> error, domainMetadata |-> domainMetadata]

(***************************************************************************)
(* scanner.ts: getHostname, identifyTrackers                               *)
(***************************************************************************)
\* new URL(url).hostname: the parser lower-cases the host; null when the URL
\* does not parse
getHostname(url) == IF url.valid THEN Some(ToLowerCase(url.host)) ELSE None

\* the state of the forEach loop after the first n resource URLs:
\* trackersFound and uniqueDomains
RECURSIVE IdentifyLoop(_, _, _)
IdentifyLoop(resourceUrls, preparedData, n) ==
    IF n = 0 THEN [trackersFound |-> <<>>, uniqueDomains |-> {}]
    ELSE LET prev == IdentifyLoop(resourceUrls, preparedData, n - 1)
             resDomain == getHostname(resourceUrls[n])
         IN  IF /\ IsSome(resDomain)
                /\ Get(resDomain) # <<>>
                /\ Get(resDomain) \notin prev.uniqueDomains
             THEN LET trackerInfo == findTrackerInfo(Get(resDomain), preparedData)
                  IN  [trackersFound |->
                           IF IsSome(trackerInfo)
                           THEN Append(prev.trackersFound,
                                       [domain |-> Get(resDomain),
                                        info |-> Get(trackerInfo)])
                           ELSE prev.trackersFound,
                       uniqueDomains |-> prev.uniqueDomains \cup {Get(resDomain)}]
             ELSE prev

\* faulty variant: every resource URL whose hostname resolves is pushed,
\* without uniqueDomains
identifyTrackers_noDedup(resourceUrls, preparedData) ==
    IF ~IsSome(preparedData) THEN <<>>
    ELSE LET resolved ==
                 SelectSeq(resourceUrls,
                           LAMBDA u : /\ IsSome(getHostname(u))
                                      /\ Get(getHostname(u)) # <<>>
                                      /\ IsSome(findTrackerInfo(Get(getHostname(u)),
                                                                preparedData)))
         IN  [i \in 1..Len(resolved) |->
                 [domain |-> Get(getHostname(resolved[i])),
                  info |-> Get(findTrackerInfo(Get(getHostname(resolved[i])),
                                               preparedData))]]

identifyTrackers(resourceUrls, preparedData) ==
    IF ~IsSome(preparedData) THEN <<>>
    ELSE IdentifyLoop(resourceUrls, preparedData, Len(resourceUrls)).trackersFound

(***************************************************************************)
(* scanner.ts: scanWebsite.  collected is what collectWebsiteData returned *)
(* (finalUrl, resourceUrls, totalSize, error); domainMetadata is added by  *)
(* the caller and is undefined (None) here.                                *)
(***************************************************************************)
Unknown == <<"u", "n", "k", "n", "o", "w", "n">>

scanWebsite(collected, preparedTrackerData) ==
    LET hostname == getHostname(collected.finalUrl)
    IN  ScanResult(IF IsSome(hostname) /\ Get(hostname) # <<>>
                   THEN Get(hostname) ELSE Unknown,
                   collected.totalSize,
                   collected.resourceUrls,
                   identifyTrackers(collected.resourceUrls, preparedTrackerData),
                   collected.error,
                   None)

(***************************************************************************)
(* utils/normalizeResults.ts: normalizeResults.  allTrackers is an object  *)
(* keyed by tracker domain: the sequence of its (key, info) properties in  *)
(* insertion order.  Tracker domains are DNS names, none of which is a     *)
(* property an object inherits, and an info is an object, hence truthy:    *)
(* !allTrackers[d] is true exactly when d is no own key.                   *)
(***************************************************************************)
\* faulty variant: a later sighting overwrites the stored info
AddToAllTrackers_lastWins(allTrackers, tracker) ==
    IF HasOwn(allTrackers, tracker.domain)
    THEN [i \in 1..Len(allTrackers) |->
             IF allTrackers[i].key = tracker.domain
             THEN [key |-> tracker.domain, info |-> tracker.info]
             ELSE allTrackers[i]]
    ELSE Append(allTrackers, [key |-> tracker.domain, info |-> tracker.info])

\* faulty variant: the test of line 32 without its negation, so nothing is added
AddToAllTrackers_inverted(allTrackers, tracker) ==
    IF HasOwn(allTrackers, tracker.domain)
    THEN AddToAllTrackers_lastWins(allTrackers, tracker)
    ELSE allTrackers

\* lines 32-34: the info enters the global map unless the key is there
AddToAllTrackers(allTrackers, tracker) ==
    IF HasOwn(allTrackers, tracker.domain)
    THEN allTrackers
    ELSE Append(allTrackers, [key |-> tracker.domain, info |-> tracker.info])

\* the inner loop over the first n trackers of one result
RECURSIVE TrackerLoop(_, _, _)
TrackerLoop(allTrackers, trackers, n) ==
    IF n = 0 THEN [allTrackers |-> allTrackers, trackerDomains |-> <<>>]
    ELSE LET prev == TrackerLoop(allTrackers, trackers, n - 1)
         IN  [allTrackers |-> AddToAllTrackers(prev.allTrackers, trackers[n]),
              trackerDomains |-> Append(prev.trackerDomains, trackers[n].domain)]

\* faulty variant: a tracker domain is referenced once per site
NormalizedScanResult_dedup(result, trackerDomains) ==
    [domain |-> result.domain, totalSize |-> result.totalSize,
     trackerDomains |->
         LET kept == SelectSeq(
                         [i \in 1..Len(trackerDomains) |-> <<i, trackerDomains[i]>>],
                         LAMBDA e : \A j \in 1..(e[1] - 1) : trackerDomains[j] # e[2])
         IN  [i \in 1..Len(kept) |-> kept[i][2]],
     error |-> result.error, domainMetadata |-> result.domainMetadata]

\* faulty variant: the tracker domains of a site come out last one first
NormalizedScanResult_reversed(result, trackerDomains) ==
    [domain |-> result.domain, totalSize |-> result.totalSize,
     trackerDomains |->
         [i \in 1..Len(trackerDomains) |->
             trackerDomains[Len(trackerDomains) + 1 - i]],
     error |-> result.error, domainMetadata |-> result.domainMetadata]

NormalizedScanResult(result, trackerDomains) ==
    [domain |-> result.domain, totalSize |-> result.totalSize,
     trackerDomains |-> trackerDomains,
     error |-> result.error, domainMetadata |-> result.domainMetadata]

\* the outer loop over the first n results
RECURSIVE ResultLoop(_, _)
ResultLoop(results, n) ==
    IF n = 0 THEN [allTrackers |-> <<>>, scanResults |-> <<>>]
    ELSE LET prev == ResultLoop(results, n - 1)
             inner == TrackerLoop(prev.allTrackers, results[n].trackers,
                                  Len(results[n].trackers))
         IN  [allTrackers |-> inner.allTrackers,
              scanResults |-> Append(prev.scanResults,
                                     NormalizedScanResult(results[n],
                                                          inner.trackerDomains))]

normalizeResults(results) == ResultLoop(results, Len(results))

(***************************************************************************)
(* types.ts: DomainCacheEntry; cache.ts.  A ledger is the sequence of its  *)
(* entries.  lastChecked is the time of the upsert that made the entry, 0  *)
(* for an entry that comes from a file.                                    *)
(***************************************************************************)
DomainCacheEntry(domain, lastChecked, success, error) ==
    [domain |-> domain, lastChecked |-> lastChecked, success |-> success,
     error |-> error]

\* cache.find(...) / cache.findIndex(...): index of the first entry of the
\* domain, 0 when there is none (findIndex's -1)
FirstIndexOf(domain, cache) ==
    LET hits == {i \in 1..Len(cache) : cache[i].domain = domain}
    IN  IF hits = {} THEN 0 ELSE CHOOSE i \in hits : \A j \in hits : i <= j

\* faulty variant: the last entry of the domain is found, not the first
findCacheEntry_last(domain, cache) ==
    LET hits == {i \in 1..Len(cache) : cache[i].domain = domain}
    IN  IF hits = {} THEN None
        ELSE Some(cache[CHOOSE i \in hits : \A j \in hits : i >= j])

findCacheEntry(domain, cache) ==
    IF FirstIndexOf(domain, cache) = 0 THEN None
    ELSE Some(cache[FirstIndexOf(domain, cache)])

\* faulty variant: any entry of the domain counts, failed or not
checkDomainProcessed_anyEntry(domain, cache) ==
    IsSome(findCacheEntry(domain, cache))

checkDomainProcessed(domain, cache) ==
    LET entry == findCacheEntry(domain, cache)
    IN  IsSome(entry) /\ Get(entry).success

\* faulty variant: the entry is appended whether or not the domain is present
updateOrAddCacheEntry_append(entry, cache) == Append(cache, entry)

\* faulty variant: the old entry of the domain is removed and the new one is
\* put at the end
updateOrAddCacheEntry_moveToEnd(entry, cache) ==
    LET index == FirstIndexOf(entry.domain, cache)
    IN  IF index >= 1
        THEN SubSeq(cache, 1, index - 1)
                 \o SubSeq(cache, index + 1, Len(cache)) \o <<entry>>
        ELSE Append(cache, entry)

updateOrAddCacheEntry(entry, cache) ==
    LET index == FirstIndexOf(entry.domain, cache)
    IN  IF index >= 1
        THEN SubSeq(cache, 1, index - 1) \o <<entry>>
                 \o SubSeq(cache, index + 1, Len(cache))
        ELSE Append(cache, entry)

\* The arrays behind the ledgers: arrays[r] holds the entries of the array
\* with reference r.  cache.ts:44-52: both branches return an array literal,
\* a new array; the array passed in is only read (slice, spread).
\* faulty variant: the array passed in is written and returned
updateOrAddCacheEntryRef_inPlace(entry, cache, heap) ==
    [arrays |-> [heap EXCEPT ![cache] = updateOrAddCacheEntry(entry, heap[cache])],
     result |-> cache]

updateOrAddCacheEntryRef(entry, cache, heap) ==
    [arrays |-> Append(heap, updateOrAddCacheEntry(entry, heap[cache])),
     result |-> Len(heap) + 1]

\* a cache file: missing, blank, not JSON, JSON that is no array, or an
\* array of entries, which nothing validates
CacheFile(kind, entries) == [kind |-> kind, entries |-> entries]

readCacheFromFile(file) ==
    IF file.kind = "array" THEN file.entries ELSE <<>>

(***************************************************************************)
(* The analytics script: calculateMedian, getTopN,                         *)
(* generateAnalyticsInternal.  A Map is a sequence of <<key, value>> pairs *)
(* in insertion order, a Set of site domains a set.  A quotient cut by     *)
(* toFixed(2) is kept in hundredths, rounded half up; with fewer than      *)
(* eight sites no quotient lies half way between two hundredths.           *)
(* domainMetadata is undefined (None) or a record of its category and of   *)
(* its owner's country, each None when absent.                             *)
(***************************************************************************)
N_TOP_ITEMS == 20

N_GROUP_ITEMS == 5

DomainMetadata(category, country) == [category |-> category, country |-> country]

\* parseFloat((n / d).toFixed(2)), in hundredths
Fixed2(n, d) == (200 * n + d) \div (2 * d)

\* Math.round(n / d)
Round(n, d) == (2 * n + d) \div (2 * d)

Sum(numbers) ==
    LET RECURSIVE Upto(_)
        Upto(n) == IF n = 0 THEN 0 ELSE Upto(n - 1) + numbers[n]
    IN  Upto(Len(numbers))

\* [...numbers].sort((a, b) => a - b)
SortAscending(numbers) ==
    LET RECURSIVE Sorted(_)
        Sorted(n) ==
            IF n = 0 THEN <<>>
            ELSE LET prev == Sorted(n - 1)
                     keep == Cardinality({i \in 1..Len(prev) : prev[i] <= numbers[n]})
                 IN  SubSeq(prev, 1, keep) \o <<numbers[n]>>
                         \o SubSeq(prev, keep + 1, Len(prev))
    IN  Sorted(Len(numbers))

\* faulty variant: the median of an even number of counts is the upper of
\* the two middle counts
calculateMedian_upperMiddle(numbers) ==
    IF Len(numbers) = 0 THEN 0
    ELSE LET sorted == SortAscending(numbers)
             mid == Len(sorted) \div 2
         IN  100 * sorted[mid + 1]

\* calculateMedian, in hundredths
calculateMedian(numbers) ==
    IF Len(numbers) = 0 THEN 0
    ELSE LET sorted == SortAscending(numbers)
             mid == Len(sorted) \div 2
         IN  IF Len(sorted) % 2 # 0
             THEN 100 * sorted[mid + 1]
             ELSE 50 * (sorted[mid] + sorted[mid + 1])

\* faulty variant: entries of equal count come out in reverse order
SortByCountDescending_tiesReversed(entries) ==
    LET RECURSIVE Sorted(_)
        Sorted(n) ==
            IF n = 0 THEN <<>>
            ELSE LET prev == Sorted(n - 1)
                     keep == Cardinality({i \in 1..Len(prev) :
                                             prev[i][2] > entries[n][2]})
                 IN  SubSeq(prev, 1, keep) \o <<entries[n]>>
                         \o SubSeq(prev, keep + 1, Len(prev))
    IN  Sorted(Len(entries))

\* Array.from(map.entries()).sort(([, a], [, b]) => b - a): a stable sort,
\* entries of equal count keep their order
SortByCountDescending(entries) ==
    LET RECURSIVE Sorted(_)
        Sorted(n) ==
            IF n = 0 THEN <<>>
            ELSE LET prev == Sorted(n - 1)
                     keep == Cardinality({i \in 1..Len(prev) :
                                             prev[i][2] >= entries[n][2]})
                 IN  SubSeq(prev, 1, keep) \o <<entries[n]>>
                         \o SubSeq(prev, keep + 1, Len(prev))
    IN  Sorted(Len(entries))

getTopN(map, total, n) ==
    LET sorted == SortByCountDescending(map)
        top == SubSeq(sorted, 1, IF Len(sorted) < n THEN Len(sorted) ELSE n)
    IN  [i \in 1..Len(top) |->
            [name |-> top[i][1], count |-> top[i][2],
             percentage |-> Fixed2(100 * top[i][2], total)]]

\* new Map([...siteMap.entries()].map(([name, sites]) => [name, sites.size]))
SiteCounts(siteMap) ==
    [i \in 1..Len(siteMap) |-> <<siteMap[i][1], Cardinality(siteMap[i][2])>>]

\* if (!map.has(key)) map.set(key, new Set()); map.get(key).add(site)
AddSite(map, key, site) ==
    MapSet(map, key,
           (IF MapHas(map, key) THEN Get(MapGet(map, key)) ELSE {}) \cup {site})

\* faulty variant: every sighting adds a member to the group's site set
AddInstance_perSighting(map, group, site) ==
    LET old == IF MapHas(map, group) THEN Get(MapGet(map, group))
               ELSE [siteDomains |-> {}, trackerInstances |-> 0]
    IN  MapSet(map, group,
               [siteDomains |-> old.siteDomains \cup {<<site, old.trackerInstances>>},
                trackerInstances |-> old.trackerInstances + 1])

\* categoryData / countryData: the group's site set and its instance count
AddInstance(map, group, site) ==
    LET old == IF MapHas(map, group) THEN Get(MapGet(map, group))
               ELSE [siteDomains |-> {}, trackerInstances |-> 0]
    IN  MapSet(map, group,
               [siteDomains |-> old.siteDomains \cup {site},
                trackerInstances |-> old.trackerInstances + 1])

\* categoryOwnerMap / countryOwnerMap: group -> owner -> site set
AddGroupOwner(map, group, ownerName, site) ==
    MapSet(map, group,
           AddSite(IF MapHas(map, group) THEN Get(MapGet(map, group)) ELSE <<>>,
                   ownerName, site))

\* categories.forEach: one increment per element of the categories array
CountCategories(map, categories) ==
    LET RECURSIVE Counted(_)
        Counted(n) ==
            IF n = 0 THEN map
            ELSE LET prev == Counted(n - 1)
                 IN  MapSet(prev, categories[n],
                            (IF MapHas(prev, categories[n])
                             THEN Get(MapGet(prev, categories[n])) ELSE 0) + 1)
    IN  Counted(Len(categories))

\* trackerInfo.owner || "Unknown Owner"
OwnerName(info) == IF info.owner = "" THEN "Unknown Owner" ELSE info.owner

\* result.domainMetadata?.category || "Unknown Category"
CategoryOf(result) ==
    IF IsSome(result.domainMetadata) /\ IsSome(Get(result.domainMetadata).category)
    THEN Get(Get(result.domainMetadata).category)
    ELSE "Unknown Category"

\* result.domainMetadata?.owner?.country || "Unknown Country"
CountryOf(result) ==
    IF IsSome(result.domainMetadata) /\ IsSome(Get(result.domainMetadata).country)
    THEN Get(Get(result.domainMetadata).country)
    ELSE "Unknown Country"

\* the counters and maps before the first result
EmptyTotals ==
    [sitesWithErrors |-> 0, sitesWithTrackers |-> 0, totalTrackerInstances |-> 0,
     totalPageSize |-> 0, allTrackerCounts |-> <<>>, uniqueDomainsPerSite |-> <<>>,
     uniqueOwnersPerSite |-> <<>>, siteUniqueOwners |-> {},
     trackerDomainSiteMap |-> <<>>, trackerOwnerSiteMap |-> <<>>,
     trackerCategoryInstanceMap |-> <<>>, categoryData |-> <<>>,
     countryData |-> <<>>, countryOwnerMap |-> <<>>, categoryOwnerMap |-> <<>>]

\* faulty variant: a reference that is not in allTrackers is counted for the
\* site's groups under an unknown owner
CountReference_missingCounted(totals, result, trackerDomain, allTrackers) ==
    LET ownerName == IF HasOwn(allTrackers, trackerDomain)
                     THEN OwnerName(Property(allTrackers, trackerDomain))
                     ELSE "Unknown Owner"
        categories == IF HasOwn(allTrackers, trackerDomain)
                      THEN Property(allTrackers, trackerDomain).categories
                      ELSE <<>>
    IN  [totals EXCEPT
            !.trackerDomainSiteMap = AddSite(@, trackerDomain, result.domain),
            !.trackerOwnerSiteMap = AddSite(@, ownerName, result.domain),
            !.trackerCategoryInstanceMap = CountCategories(@, categories),
            !.siteUniqueOwners = @ \cup {ownerName},
            !.categoryData = AddInstance(@, CategoryOf(result), result.domain),
            !.countryData = AddInstance(@, CountryOf(result), result.domain),
            !.countryOwnerMap =
                AddGroupOwner(@, CountryOf(result), ownerName, result.domain),
            !.categoryOwnerMap =
                AddGroupOwner(@, CategoryOf(result), ownerName, result.domain)]

\* faulty variant: a tracker's categories are counted once however many it has
CountReference_oneCategory(totals, result, trackerDomain, allTrackers) ==
    IF ~HasOwn(allTrackers, trackerDomain) THEN totals
    ELSE LET trackerInfo == Property(allTrackers, trackerDomain)
             ownerName == OwnerName(trackerInfo)
         IN  [totals EXCEPT
                 !.trackerDomainSiteMap = AddSite(@, trackerDomain, result.domain),
                 !.trackerOwnerSiteMap = AddSite(@, ownerName, result.domain),
                 !.trackerCategoryInstanceMap =
                     CountCategories(@, SubSeq(trackerInfo.categories, 1,
                                               IF trackerInfo.categories = <<>>
                                               THEN 0 ELSE 1)),
                 !.siteUniqueOwners = @ \cup {ownerName},
                 !.categoryData = AddInstance(@, CategoryOf(result), result.domain),
                 !.countryData = AddInstance(@, CountryOf(result), result.domain),
                 !.countryOwnerMap =
                     AddGroupOwner(@, CountryOf(result), ownerName, result.domain),
                 !.categoryOwnerMap =
                     AddGroupOwner(@, CategoryOf(result), ownerName, result.domain)]

\* lines 153-219: the body of result.trackerDomains.forEach for one reference
CountReference(totals, result, trackerDomain, allTrackers) ==
    IF ~HasOwn(allTrackers, trackerDomain) THEN totals
    ELSE LET trackerInfo == Property(allTrackers, trackerDomain)
             ownerName == OwnerName(trackerInfo)
         IN  [totals EXCEPT
                 !.trackerDomainSiteMap = AddSite(@, trackerDomain, result.domain),
                 !.trackerOwnerSiteMap = AddSite(@, ownerName, result.domain),
                 !.trackerCategoryInstanceMap =
                     CountCategories(@, trackerInfo.categories),
                 !.siteUniqueOwners = @ \cup {ownerName},
                 !.categoryData = AddInstance(@, CategoryOf(result), result.domain),
                 !.countryData = AddInstance(@, CountryOf(result), result.domain),
                 !.countryOwnerMap =
                     AddGroupOwner(@, CountryOf(result), ownerName, result.domain),
                 !.categoryOwnerMap =
                     AddGroupOwner(@, CategoryOf(result), ownerName, result.domain)]

\* lines 133-223: the body of the loop over scanResults for one result
CountResult(totals, result, allTrackers) ==
    LET currentTrackerCount == Len(result.trackerDomains)
        start == [totals EXCEPT
                     !.sitesWithErrors = @ + (IF IsSome(result.error) THEN 1 ELSE 0),
                     !.totalPageSize = @ + result.totalSize,
                     !.sitesWithTrackers =
                         @ + (IF currentTrackerCount > 0 THEN 1 ELSE 0),
                     !.allTrackerCounts = Append(@, currentTrackerCount),
                     !.totalTrackerInstances = @ + currentTrackerCount,
                     !.siteUniqueOwners = {}]
        RECURSIVE References(_)
        References(n) ==
            IF n = 0 THEN start
            ELSE CountReference(References(n - 1), result,
                                result.trackerDomains[n], allTrackers)
        counted == References(currentTrackerCount)
    IN  [counted EXCEPT
            !.uniqueDomainsPerSite =
                Append(@, Cardinality({result.trackerDomains[i] :
                                          i \in 1..currentTrackerCount})),
            !.uniqueOwnersPerSite = Append(@, Cardinality(counted.siteUniqueOwners))]

\* the counters and maps after the loop over scanResults
Totals(dataset) ==
    LET RECURSIVE Results(_)
        Results(n) ==
            IF n = 0 THEN EmptyTotals
            ELSE CountResult(Results(n - 1), dataset.scanResults[n],
                             dataset.allTrackers)
    IN  Results(Len(dataset.scanResults))

\* lines 291-327: analysisByCategory / analysisByCountry, undefined (None)
\* when no group is listed
GroupAnalysis(groupData, groupOwnerMap) ==
    LET listed == SelectSeq(groupData,
                            LAMBDA g : Cardinality(g[2].siteDomains) # 0)
    IN  IF listed = <<>> THEN None
        ELSE Some([i \in 1..Len(listed) |->
                 LET siteCount == Cardinality(listed[i][2].siteDomains)
                     owners == IF MapHas(groupOwnerMap, listed[i][1])
                               THEN Get(MapGet(groupOwnerMap, listed[i][1]))
                               ELSE <<>>
                 IN  [key |-> listed[i][1],
                      siteCount |-> siteCount,
                      totalTrackerInstances |-> listed[i][2].trackerInstances,
                      averageTrackersPerSite |->
                          Fixed2(listed[i][2].trackerInstances, siteCount),
                      topTrackerOwners |->
                          getTopN(SiteCounts(owners), siteCount, N_GROUP_ITEMS)]])

\* lines 121-131 and 225-346: the report built from the counters and maps
AnalyticsOutput(dataset, totals) ==
    LET totalSitesProcessed == Len(dataset.scanResults)
        uniqueOwnerNames == {OwnerName(dataset.allTrackers[i].info) :
                                 i \in 1..Len(dataset.allTrackers)}
        averageTrackersPerSite ==
            Fixed2(totals.totalTrackerInstances, totalSitesProcessed)
    IN  [summary |->
             [totalSitesProcessed |-> totalSitesProcessed,
              sitesWithErrors |-> totals.sitesWithErrors,
              sitesWithTrackers |-> totals.sitesWithTrackers,
              totalTrackerInstances |-> totals.totalTrackerInstances,
              totalUniqueTrackerDomains |-> Len(dataset.allTrackers),
              totalUniqueTrackerOwners |-> Cardinality(uniqueOwnerNames),
              averageTrackersPerSite |-> averageTrackersPerSite,
              averageUniqueTrackerDomainsPerSite |->
                  Fixed2(Sum(totals.uniqueDomainsPerSite), totalSitesProcessed),
              averageUniqueTrackerOwnersPerSite |->
                  Fixed2(Sum(totals.uniqueOwnersPerSite), totalSitesProcessed),
              averagePageSizeBytes |->
                  Round(totals.totalPageSize, totalSitesProcessed)],
         trackerCountDistribution |->
             [min |-> CHOOSE c \in {totals.allTrackerCounts[i] :
                                       i \in 1..Len(totals.allTrackerCounts)} :
                          \A i \in 1..Len(totals.allTrackerCounts) :
                              c <= totals.allTrackerCounts[i],
              max |-> CHOOSE c \in {totals.allTrackerCounts[i] :
                                       i \in 1..Len(totals.allTrackerCounts)} :
                          \A i \in 1..Len(totals.allTrackerCounts) :
                              c >= totals.allTrackerCounts[i],
              median |-> calculateMedian(totals.allTrackerCounts),
              mean |-> averageTrackersPerSite],
         topTrackerDomains |->
             getTopN(SiteCounts(totals.trackerDomainSiteMap),
                     totalSitesProcessed, N_TOP_ITEMS),
         topTrackerOwners |->
             getTopN(SiteCounts(totals.trackerOwnerSiteMap),
                     totalSitesProcessed, N_TOP_ITEMS),
         topTrackerCategories |->
             getTopN(totals.trackerCategoryInstanceMap,
                     totals.totalTrackerInstances, N_TOP_ITEMS),
         analysisByCategory |->
             GroupAnalysis(totals.categoryData, totals.categoryOwnerMap),
         analysisByCountry |->
             GroupAnalysis(totals.countryData, totals.countryOwnerMap)]

\* what a call gives: the error it threw, or the report and, for the claims
\* about them, the counters and maps it was built from
Thrown(message) == [threw |-> TRUE, message |-> message]

Returned(output, totals) == [threw |-> FALSE, output |-> output, totals |-> totals]

\* faulty variant: an empty dataset gets a report with no site in it
generateAnalyticsInternal_noGuard(dataset) ==
    IF Len(dataset.scanResults) = 0
    THEN Returned([summary |-> [totalSitesProcessed |-> 0]], EmptyTotals)
    ELSE Returned(AnalyticsOutput(dataset, Totals(dataset)), Totals(dataset))

generateAnalyticsInternal(dataset) ==
    IF Len(dataset.scanResults) = 0
    THEN Thrown("Cannot generate analytics: No results found in input.")
    ELSE LET totals == Totals(dataset)
         IN  Returned(AnalyticsOutput(dataset, totals), totals)

(***************************************************************************)
(* scripts/analytics.ts: generateAnalytics, the aggregator over raw scan   *)
(* results.  Its calculateMedian and getTopN are copies of those of the    *)
(* aggregator above, and its maps are filled by the same statements; it    *)
(* reads owner and categories from the sighting's own info, adds every     *)
(* sighting's domain to siteUniqueDomains, takes the totals of unique      *)
(* domains and owners from the sizes of its maps, and lists every group.   *)
(***************************************************************************)
\* lines 132-189: the body of result.trackers.forEach for one sighting
CountSighting(totals, result, tracker) ==
    LET trackerDomain == tracker.domain
        ownerName == OwnerName(tracker.info)
    IN  [totals EXCEPT
            !.trackerDomainSiteMap = AddSite(@, trackerDomain, result.domain),
            !.trackerOwnerSiteMap = AddSite(@, ownerName, result.domain),
            !.trackerCategoryInstanceMap =
                CountCategories(@, tracker.info.categories),
            !.siteUniqueDomains = @ \cup {trackerDomain},
            !.siteUniqueOwners = @ \cup {ownerName},
            !.categoryData = AddInstance(@, CategoryOf(result), result.domain),
            !.countryData = AddInstance(@, CountryOf(result), result.domain),
            !.countryOwnerMap =
                AddGroupOwner(@, CountryOf(result), ownerName, result.domain),
            !.categoryOwnerMap =
                AddGroupOwner(@, CategoryOf(result), ownerName, result.domain)]

\* faulty variant: uniqueDomainsPerSite takes the number of sightings of the
\* site
CountRawResult_sightingsAsDomains(totals, result) ==
    LET currentTrackerCount == Len(result.trackers)
        start == [totals EXCEPT
                     !.sitesWithErrors = @ + (IF IsSome(result.error) THEN 1 ELSE 0),
                     !.totalPageSize = @ + result.totalSize,
                     !.sitesWithTrackers =
                         @ + (IF currentTrackerCount > 0 THEN 1 ELSE 0),
                     !.allTrackerCounts = Append(@, currentTrackerCount),
                     !.totalTrackerInstances = @ + currentTrackerCount,
                     !.siteUniqueDomains = {},
                     !.siteUniqueOwners = {}]
        RECURSIVE Sightings(_)
        Sightings(n) ==
            IF n = 0 THEN start
            ELSE CountSighting(Sightings(n - 1), result, result.trackers[n])
        counted == Sightings(currentTrackerCount)
    IN  [counted EXCEPT
            !.uniqueDomainsPerSite = Append(@, currentTrackerCount),
            !.uniqueOwnersPerSite = Append(@, Cardinality(counted.siteUniqueOwners))]

\* lines 113-193: the body of the loop over results for one result
CountRawResult(totals, result) ==
    LET currentTrackerCount == Len(result.trackers)
        start == [totals EXCEPT
                     !.sitesWithErrors = @ + (IF IsSome(result.error) THEN 1 ELSE 0),
                     !.totalPageSize = @ + result.totalSize,
                     !.sitesWithTrackers =
                         @ + (IF currentTrackerCount > 0 THEN 1 ELSE 0),
                     !.allTrackerCounts = Append(@, currentTrackerCount),
                     !.totalTrackerInstances = @ + currentTrackerCount,
                     !.siteUniqueDomains = {},
                     !.siteUniqueOwners = {}]
        RECURSIVE Sightings(_)
        Sightings(n) ==
            IF n = 0 THEN start
            ELSE CountSighting(Sightings(n - 1), result, result.trackers[n])
        counted == Sightings(currentTrackerCount)
    IN  [counted EXCEPT
            !.uniqueDomainsPerSite = Append(@, Cardinality(counted.siteUniqueDomains)),
            !.uniqueOwnersPerSite = Append(@, Cardinality(counted.siteUniqueOwners))]

\* the counters and maps after the loop over results
RawTotals(results) ==
    LET RECURSIVE Results(_)
        Results(n) ==
            IF n = 0
            THEN [f \in DOMAIN EmptyTotals \cup {"siteUniqueDomains"} |->
                     IF f = "siteUniqueDomains" THEN {} ELSE EmptyTotals[f]]
            ELSE CountRawResult(Results(n - 1), results[n])
    IN  Results(Len(results))

\* lines 257-293: analysisByCategory / analysisByCountry, every group of the
\* map listed; undefined (None) when the map is empty
RawGroupAnalysis(groupData, groupOwnerMap) ==
    IF groupData = <<>> THEN None
    ELSE Some([i \in 1..Len(groupData) |->
             LET siteCount == Cardinality(groupData[i][2].siteDomains)
                 owners == IF MapHas(groupOwnerMap, groupData[i][1])
                           THEN Get(MapGet(groupOwnerMap, groupData[i][1]))
                           ELSE <<>>
             IN  [key |-> groupData[i][1],
                  siteCount |-> siteCount,
                  totalTrackerInstances |-> groupData[i][2].trackerInstances,
                  averageTrackersPerSite |->
                      Fixed2(groupData[i][2].trackerInstances, siteCount),
                  topTrackerOwners |->
                      getTopN(SiteCounts(owners), siteCount, N_GROUP_ITEMS)]])

\* lines 195-311: the report built from the counters and maps
RawAnalyticsOutput(results, totals) ==
    LET totalSitesProcessed == Len(results)
        averageTrackersPerSite ==
            Fixed2(totals.totalTrackerInstances, totalSitesProcessed)
    IN  [summary |->
             [totalSitesProcessed |-> totalSitesProcessed,
              sitesWithErrors |-> totals.sitesWithErrors,
              sitesWithTrackers |-> totals.sitesWithTrackers,
              totalTrackerInstances |-> totals.totalTrackerInstances,
              totalUniqueTrackerDomains |-> Len(totals.trackerDomainSiteMap),
              totalUniqueTrackerOwners |-> Len(totals.trackerOwnerSiteMap),
              averageTrackersPerSite |-> averageTrackersPerSite,
              averageUniqueTrackerDomainsPerSite |->
                  Fixed2(Sum(totals.uniqueDomainsPerSite), totalSitesProcessed),
              averageUniqueTrackerOwnersPerSite |->
                  Fixed2(Sum(totals.uniqueOwnersPerSite), totalSitesProcessed),
              averagePageSizeBytes |->
                  Round(totals.totalPageSize, totalSitesProcessed)],
         trackerCountDistribution |->
             [min |-> CHOOSE c \in {totals.allTrackerCounts[i] :
                                       i \in 1..Len(totals.allTrackerCounts)} :
                          \A i \in 1..Len(totals.allTrackerCounts) :
                              c <= totals.allTrackerCounts[i],
              max |-> CHOOSE c \in {totals.allTrackerCounts[i] :
                                       i \in 1..Len(totals.allTrackerCounts)} :
                          \A i \in 1..Len(totals.allTrackerCounts) :
                              c >= totals.allTrackerCounts[i],
              median |-> calculateMedian(totals.allTrackerCounts),
              mean |-> averageTrackersPerSite],
         topTrackerDomains |->
             getTopN(SiteCounts(totals.trackerDomainSiteMap),
                     totalSitesProcessed, N_TOP_ITEMS),
         topTrackerOwners |->
             getTopN(SiteCounts(totals.trackerOwnerSiteMap),
                     totalSitesProcessed, N_TOP_ITEMS),
         topTrackerCategories |->
             getTopN(totals.trackerCategoryInstanceMap,
                     totals.totalTrackerInstances, N_TOP_ITEMS),
         analysisByCategory |->
             RawGroupAnalysis(totals.categoryData, totals.categoryOwnerMap),
         analysisByCountry |->
             RawGroupAnalysis(totals.countryData, totals.countryOwnerMap)]

generateAnalytics(results) ==
    IF Len(results) = 0
    THEN Thrown("Cannot generate analytics: No results found in input.")
    ELSE LET totals == RawTotals(results)
         IN  Returned(RawAnalyticsOutput(results, totals), totals)

(***************************************************************************)
(* The components a specification leaves alone stay in their idle state.   *)
(***************************************************************************)
TrIdle ==
    /\ trPc = "idle"
    /\ trackerList = EmptyTrackerList
    /\ prepared = None
    /\ observed = <<>>
    /\ found = None

RsIdle ==
    /\ rsPc = "idle"
    /\ intermediateResults = <<>>
    /\ finalOutput = None

CaIdle ==
    /\ caPc = "idle"
    /\ cacheFile = CacheFile("missing", <<>>)
    /\ currentCache = <<>>
    /\ clock = 0
    /\ upserted = {}
    /\ asked = <<>>
    /\ answer = FALSE
    /\ arrays = <<>>
    /\ cacheRef = 0
    /\ snapshots = <<>>
    /\ lastEntry = None

RunIdle ==
    /\ runPc = "off"
    /\ cacheEnabled = FALSE
    /\ domainInputs = <<>>
    /\ cursor = 0
    /\ resultsFile = None
    /\ startCache = <<>>
    /\ decisions = <<>>
    /\ processedCount = 0
    /\ skippedCount = 0
    /\ errorCount = 0

AnIdle ==
    /\ anPc = "idle"
    /\ data = [allTrackers |-> <<>>, scanResults |-> <<>>]
    /\ analytics = None
    /\ rawAnalytics = None

WrIdle ==
    /\ wrPc = <<>>
    /\ wrEntry = <<>>
    /\ wrCache = <<>>
    /\ installs = <<>>

(***************************************************************************)
(* Driver of normalizeDomain: a caller builds a string and normalises it,  *)
(* then normalises the result again.                                       *)
(***************************************************************************)
NdIdle ==
    /\ ndPc = "idle"
    /\ ndIn = <<>>
    /\ ndOut = Null
    /\ ndTwice = Null

NdInit ==
    /\ ndPc = "input"
    /\ ndIn = <<>>
    /\ ndOut = Null
    /\ ndTwice = Null

NdType(c) ==
    /\ ndPc = "input"
    /\ Len(ndIn) < MaxDomainLen
    /\ ndIn' = Append(ndIn, c)
    /\ UNCHANGED <<ndPc, ndOut, ndTwice>>
    /\ UNCHANGED <<trVars, rsVars, caVars, runVars, anVars, wrVars>>

NdNormalize ==
    /\ ndPc = "input"
    /\ ndOut' = normalizeDomain(ndIn)
    /\ ndTwice' = normalizeDomain(normalizeDomain(ndIn))
    /\ ndPc' = "done"
    /\ UNCHANGED ndIn
    /\ UNCHANGED <<trVars, rsVars, caVars, runVars, anVars, wrVars>>

NdNext ==
    \/ \E c \in Alphabet : NdType(c)
    \/ NdNormalize

NormalizeInit == NdInit /\ TrIdle /\ RsIdle /\ CaIdle /\ RunIdle /\ AnIdle /\ WrIdle

SpecNormalize == NormalizeInit /\ [][NdNext]_vars

(***************************************************************************)
(* Driver of the tracker index and resolver: loadAndPrepareTrackerData     *)
(* parses a registry and prepares it (or fails and yields null), then a    *)
(* caller resolves an observed domain.                                     *)
(***************************************************************************)
\* registry keys: a domain, a subdomain of it, its "www." form (the same
\* normalized key), a domain it is a plain string suffix of, and the two
\* keys that normalize to the empty string
KeyPool ==
    { <<"a">>, <<"a", ".", "a">>, <<"w", "w", "w", ".", "a">>, <<"a", "a">>,
      <<"w", "w", "w", ".">>, <<>> }

\* observed domains: every string of the letter a and the label separator,
\* with and without a "www." prefix in mixed case
ObservedPool ==
    {p \o b : p \in {<<>>, <<"W", "w", "w", ".">>},
              b \in Strs({"a", "."}, MaxObservedLen)}

Owners == {"Google LLC", "Example Org"}

RegistryInfos == {TrackerInfo(o, <<>>, FALSE) : o \in Owners}

TrInit ==
    /\ trPc = "load"
    /\ trackerList = EmptyTrackerList
    /\ prepared = None
    /\ observed = <<>>
    /\ found = None

\* JSON.parse meets one more property of the "trackers" object
TrAddTracker(key, info) ==
    /\ trPc = "load"
    /\ trackerList.shape = "object"
    /\ Len(trackerList.trackers) < MaxTrackers
    /\ ~HasOwn(trackerList.trackers, key)
    /\ trackerList' = TrackerList("object",
                          Append(trackerList.trackers, [key |-> key, info |-> info]))
    /\ UNCHANGED <<trPc, prepared, observed, found>>
    /\ UNCHANGED <<ndVars, rsVars, caVars, runVars, anVars, wrVars>>

\* the registry handed to prepareTrackerData is malformed
TrMalformed(shape) ==
    /\ trPc = "load"
    /\ trackerList = EmptyTrackerList
    /\ trackerList' = TrackerList(shape, <<>>)
    /\ UNCHANGED <<trPc, prepared, observed, found>>
    /\ UNCHANGED <<ndVars, rsVars, caVars, runVars, anVars, wrVars>>

TrPrepare ==
    /\ trPc = "load"
    /\ prepared' = Some(prepareTrackerData(trackerList))
    /\ trPc' = "ready"
    /\ UNCHANGED <<trackerList, observed, found>>
    /\ UNCHANGED <<ndVars, rsVars, caVars, runVars, anVars, wrVars>>

\* loadAndPrepareTrackerData caught an error and returned null
TrLoadFailed ==
    /\ trPc = "load"
    /\ trackerList = EmptyTrackerList
    /\ prepared' = None
    /\ trPc' = "ready"
    /\ UNCHANGED <<trackerList, observed, found>>
    /\ UNCHANGED <<ndVars, rsVars, caVars, runVars, anVars, wrVars>>

TrResolve(domain) ==
    /\ trPc = "ready"
    /\ observed' = domain
    /\ found' = findTrackerInfo(domain, prepared)
    /\ trPc' = "resolved"
    /\ UNCHANGED <<trackerList, prepared>>
    /\ UNCHANGED <<ndVars, rsVars, caVars, runVars, anVars, wrVars>>

TrNext ==
    \/ \E key \in KeyPool, info \in RegistryInfos : TrAddTracker(key, info)
    \/ \E shape \in Shapes \ {"object"} : TrMalformed(shape)
    \/ TrPrepare
    \/ TrLoadFailed
    \/ \E domain \in ObservedPool : TrResolve(domain)

TrackerInit == TrInit /\ NdIdle /\ RsIdle /\ CaIdle /\ RunIdle /\ AnIdle /\ WrIdle

SpecTracker == TrackerInit /\ [][TrNext]_vars

(***************************************************************************)
(* Driver of normalizeResults: a batch of raw scan results, as index.ts    *)
(* collects it or as the analytics script reads it from a file, is         *)
(* normalised once.                                                        *)
(***************************************************************************)
SiteA == <<"a", ".", "w">>

TrackerA == <<"a">>

TrackerB == <<"a", ".", "a">>

ResultInfos ==
    {TrackerInfo("Google LLC", <<>>, FALSE), TrackerInfo("Example Org", <<>>, FALSE)}

\* one tracker domain sighted with either info, another with one info
RawTrackers ==
    {[domain |-> TrackerA, info |-> i] : i \in ResultInfos}
        \cup {[domain |-> TrackerB, info |-> TrackerInfo("Example Org", <<>>, FALSE)]}

RawTrackerLists == UNION {[1..n -> RawTrackers] : n \in 0..MaxSiteTrackers}

RsInit ==
    /\ rsPc = "collect"
    /\ intermediateResults = <<>>
    /\ finalOutput = None

RsAddResult(trackers) ==
    /\ rsPc = "collect"
    /\ Len(intermediateResults) < MaxResults
    /\ intermediateResults' =
           Append(intermediateResults,
                  ScanResult(SiteA, 0, <<>>, trackers, None, None))
    /\ UNCHANGED <<rsPc, finalOutput>>
    /\ UNCHANGED <<ndVars, trVars, caVars, runVars, anVars, wrVars>>

RsNormalize ==
    /\ rsPc = "collect"
    /\ finalOutput' = Some(normalizeResults(intermediateResults))
    /\ rsPc' = "normalized"
    /\ UNCHANGED intermediateResults
    /\ UNCHANGED <<ndVars, trVars, caVars, runVars, anVars, wrVars>>

RsNext ==
    \/ \E trackers \in RawTrackerLists : RsAddResult(trackers)
    \/ RsNormalize

ResultsInit == RsInit /\ NdIdle /\ TrIdle /\ CaIdle /\ RunIdle /\ AnIdle /\ WrIdle

SpecResults == ResultsInit /\ [][RsNext]_vars

(***************************************************************************)
(* Driver of the scan pipeline of index.ts without its cache: the registry *)
(* is loaded and prepared, every page is scanned (collectWebsiteData       *)
(* yields the resource URLs, identifyTrackers resolves them) and the       *)
(* results are normalised after the last scan.                             *)
(***************************************************************************)
ScanKeyPool == {TrackerA, TrackerB}

ScanInfos == {TrackerInfo("Google LLC", <<>>, r) : r \in BOOLEAN}

ScanUrls ==
    {Url(TRUE, h) : h \in {<<"a">>, <<"a", ".", "a">>, <<"W", "w", "w", ".", "a">>,
                           <<"a", "a">>, <<>>}}
        \cup {Url(FALSE, <<>>)}

ScanUrlLists == UNION {[1..n -> ScanUrls] : n \in 0..MaxUrls}

ScInit == TrInit /\ RsInit /\ NdIdle /\ CaIdle /\ RunIdle /\ AnIdle /\ WrIdle

ScScanSite(resourceUrls) ==
    /\ trPc = "ready"
    /\ IsSome(prepared)
    /\ rsPc = "collect"
    /\ Len(intermediateResults) < MaxResults
    /\ intermediateResults' =
           Append(intermediateResults,
                  scanWebsite([finalUrl |-> Url(TRUE, SiteA),
                               resourceUrls |-> resourceUrls,
                               totalSize |-> 0, error |-> None],
                              prepared))
    /\ UNCHANGED <<rsPc, finalOutput>>
    /\ UNCHANGED <<ndVars, trVars, caVars, runVars, anVars, wrVars>>

ScNormalize ==
    /\ trPc = "ready"
    /\ IsSome(prepared)
    /\ RsNormalize

ScNext ==
    \/ \E key \in ScanKeyPool, info \in ScanInfos : TrAddTracker(key, info)
    \/ TrPrepare
    \/ TrLoadFailed
    \/ \E resourceUrls \in ScanUrlLists : ScScanSite(resourceUrls)
    \/ ScNormalize

SpecScan == ScInit /\ [][ScNext]_vars

(***************************************************************************)
(* Driver of identifyTrackers: a registry of one entry per key is loaded   *)
(* and prepared, one page is scanned, and the results are normalised; a    *)
(* second result may come as a raw scan result read from a file, whose     *)
(* tracker list is any list of sightings.                                  *)
(***************************************************************************)
IdRegistryEntries ==
    {[key |-> TrackerA, info |-> TrackerInfo("Google LLC", <<>>, FALSE)],
     [key |-> TrackerB, info |-> TrackerInfo("Example Org", <<>>, FALSE)]}

IdScanSite(resourceUrls) ==
    /\ intermediateResults = <<>>
    /\ ScScanSite(resourceUrls)

IdAddRaw(trackers) ==
    /\ trPc = "ready"
    /\ Len(intermediateResults) = 1
    /\ RsAddResult(trackers)

IdNext ==
    \/ \E entry \in IdRegistryEntries : TrAddTracker(entry.key, entry.info)
    \/ TrPrepare
    \/ \E resourceUrls \in ScanUrlLists : IdScanSite(resourceUrls)
    \/ \E trackers \in RawTrackerLists : IdAddRaw(trackers)
    \/ ScNormalize

SpecIdentify == ScInit /\ [][IdNext]_vars

(***************************************************************************)
(* Driver of the cache ledger: the ledger is read from the cache file once *)
(* (index.ts:166), then entries are upserted and domains are checked.      *)
(***************************************************************************)
SiteB == <<"w", ".", "a">>

CacheDomains == {SiteA, SiteB}

\* the entries a cache file can hold, written by an earlier run
FileEntries ==
    {DomainCacheEntry(d, 0, TRUE, None) : d \in CacheDomains}
        \cup {DomainCacheEntry(d, 0, FALSE, Some("timeout")) : d \in CacheDomains}

CacheFiles ==
    {CacheFile(k, <<>>) : k \in {"missing", "blank", "malformed", "notArray"}}
        \cup {CacheFile("array", e) :
                 e \in UNION {[1..n -> FileEntries] : n \in 0..MaxFileEntries}}

CaInit ==
    /\ caPc = "start"
    /\ cacheFile = CacheFile("missing", <<>>)
    /\ currentCache = <<>>
    /\ clock = 0
    /\ upserted = {}
    /\ asked = <<>>
    /\ answer = FALSE
    /\ arrays = <<>>
    /\ cacheRef = 0
    /\ snapshots = <<>>
    /\ lastEntry = None

CaRead(file) ==
    /\ caPc = "start"
    /\ cacheFile' = file
    /\ currentCache' = readCacheFromFile(file)
    /\ arrays' = <<readCacheFromFile(file)>>
    /\ cacheRef' = 1
    /\ snapshots' = <<[ref |-> 1, entries |-> readCacheFromFile(file)]>>
    /\ caPc' = "loaded"
    /\ UNCHANGED <<clock, upserted, asked, answer, lastEntry>>
    /\ UNCHANGED <<ndVars, trVars, rsVars, runVars, anVars, wrVars>>

\* index.ts:268-274: the entry of a scan that ended now
CaUpsert(domain, success) ==
    /\ caPc = "loaded"
    /\ clock < MaxUpserts
    /\ clock' = clock + 1
    /\ LET cacheEntry == DomainCacheEntry(domain, clock + 1, success,
                                          IF success THEN None ELSE Some("timeout"))
           returned == updateOrAddCacheEntryRef(cacheEntry, cacheRef, arrays)
       IN  /\ arrays' = returned.arrays
           /\ cacheRef' = returned.result
           /\ currentCache' = returned.arrays[returned.result]
           /\ snapshots' = Append(snapshots,
                                  [ref |-> returned.result,
                                   entries |-> returned.arrays[returned.result]])
           /\ lastEntry' = Some(cacheEntry)
    /\ upserted' = upserted \cup {domain}
    /\ UNCHANGED <<caPc, cacheFile, asked, answer>>
    /\ UNCHANGED <<ndVars, trVars, rsVars, runVars, anVars, wrVars>>

CaCheck(domain) ==
    /\ caPc = "loaded"
    /\ asked' = domain
    /\ answer' = checkDomainProcessed(domain, currentCache)
    /\ caPc' = "checked"
    /\ UNCHANGED <<cacheFile, currentCache, clock, upserted>>
    /\ UNCHANGED <<arrays, cacheRef, snapshots, lastEntry>>
    /\ UNCHANGED <<ndVars, trVars, rsVars, runVars, anVars, wrVars>>

CaNext ==
    \/ \E file \in CacheFiles : CaRead(file)
    \/ \E domain \in CacheDomains, success \in BOOLEAN : CaUpsert(domain, success)
    \/ \E domain \in CacheDomains : CaCheck(domain)

CacheInit == CaInit /\ NdIdle /\ TrIdle /\ RsIdle /\ RunIdle /\ AnIdle /\ WrIdle

SpecCache == CacheInit /\ [][CaNext]_vars

(***************************************************************************)
(* index.ts: the runs of the scanner over one cache file and one results   *)
(* file.  A run reads the ledger, walks the domain inputs in order, skips  *)
(* or scans each, upserts and writes the ledger after every scan, and      *)
(* normalises and writes the results once after the loop.  The process can *)
(* be interrupted between two inputs; what is on disk stays.  The page     *)
(* does not redirect: finalUrl is the requested URL.  lastChecked, which   *)
(* nothing reads, is 1 in every entry a run makes.  The disk takes every   *)
(* write: writeCacheToFile and writeFileSync do not fail.                  *)
(***************************************************************************)
\* index.ts:37-43
getHostnameSafe(url) == getHostname(url)

\* the registry of every run: one tracker
RunTrackerList ==
    TrackerList("object",
                <<[key |-> TrackerA, info |-> TrackerInfo("Google LLC", <<>>, FALSE)]>>)

\* the domains files: validated URLs (index.ts:131-150) of two sites, and a
\* second page of the first site
RunUrls == {Url(TRUE, SiteA), Url(TRUE, SiteB)}

RunInputs == UNION {[1..n -> RunUrls] : n \in 1..MaxInputs}

\* what collectWebsiteData returns for a page: it loaded and requested the
\* tracker, or navigation failed
Collected(url) ==
    {[finalUrl |-> url, resourceUrls |-> <<Url(TRUE, TrackerA)>>, totalSize |-> 0,
      error |-> None],
     [finalUrl |-> url, resourceUrls |-> <<>>, totalSize |-> 0,
      error |-> Some("timeout")]}

\* index.ts:190 and 200: the input is skipped
Skips(url) ==
    LET domainName == getHostnameSafe(url)
    IN  \/ ~IsSome(domainName)
        \/ Get(domainName) = <<>>
        \/ cacheEnabled /\ checkDomainProcessed(Get(domainName), currentCache)

RunInit ==
    /\ runPc = "idle"
    /\ cacheEnabled = FALSE
    /\ domainInputs = <<>>
    /\ cursor = 0
    /\ resultsFile = None
    /\ startCache = <<>>
    /\ decisions = <<>>
    /\ processedCount = 0
    /\ skippedCount = 0
    /\ errorCount = 0
    /\ trPc = "ready"
    /\ trackerList = RunTrackerList
    /\ prepared = Some(prepareTrackerData(RunTrackerList))
    /\ observed = <<>>
    /\ found = None
    /\ CaIdle
    /\ RsIdle
    /\ NdIdle
    /\ AnIdle
    /\ WrIdle

\* index.ts:103-183
RunStart(enabled, inputs) ==
    /\ runPc = "idle"
    /\ cacheEnabled' = enabled
    /\ domainInputs' = inputs
    /\ currentCache' = IF enabled THEN readCacheFromFile(cacheFile) ELSE <<>>
    /\ startCache' = currentCache'
    /\ intermediateResults' = <<>>
    /\ finalOutput' = None
    /\ cursor' = 0
    /\ decisions' = <<>>
    /\ processedCount' = 0
    /\ skippedCount' = 0
    /\ errorCount' = 0
    /\ runPc' = "loop"
    /\ UNCHANGED <<resultsFile, cacheFile, rsPc>>
    /\ UNCHANGED <<caPc, clock, upserted, asked, answer, arrays, cacheRef,
                   snapshots, lastEntry>>
    /\ UNCHANGED <<ndVars, trVars, anVars, wrVars>>

\* index.ts:186-204: one iteration that ends in continue
RunSkip ==
    /\ runPc = "loop"
    /\ cursor < Len(domainInputs)
    /\ Skips(domainInputs[cursor + 1])
    /\ cursor' = cursor + 1
    /\ decisions' = Append(decisions,
                           [domain |-> Get(getHostnameSafe(domainInputs[cursor + 1])),
                            scanned |-> FALSE, ledger |-> currentCache])
    /\ skippedCount' = skippedCount + 1
    /\ UNCHANGED <<runPc, cacheEnabled, domainInputs, resultsFile, startCache,
                   processedCount, errorCount>>
    /\ UNCHANGED <<ndVars, trVars, rsVars, caVars, anVars, wrVars>>

\* faulty variant: the entry is written with success = true whatever the scan
\* gave
RunUpdateCache_alwaysSuccess(domainName, success, scanError) ==
    IF cacheEnabled
    THEN LET cacheEntry == DomainCacheEntry(domainName, 1, TRUE, scanError)
             updated == updateOrAddCacheEntry(cacheEntry, currentCache)
         IN  /\ currentCache' = updated
             /\ cacheFile' = CacheFile("array", updated)
    ELSE UNCHANGED <<currentCache, cacheFile>>

\* index.ts:266-278: the ledger after the scan of domainName, written to the
\* cache file
RunUpdateCache(domainName, success, scanError) ==
    IF cacheEnabled
    THEN LET cacheEntry == DomainCacheEntry(domainName, 1, success, scanError)
             updated == updateOrAddCacheEntry(cacheEntry, currentCache)
         IN  /\ currentCache' = updated
             /\ cacheFile' = CacheFile("array", updated)
    ELSE UNCHANGED <<currentCache, cacheFile>>

\* index.ts:186-224: the input is not skipped; scanWebsite is called and the
\* loop awaits it
RunBeginScan ==
    /\ runPc = "loop"
    /\ cursor < Len(domainInputs)
    /\ ~Skips(domainInputs[cursor + 1])
    /\ runPc' = "scanning"
    /\ UNCHANGED <<cacheEnabled, domainInputs, cursor, resultsFile, startCache,
                   decisions, processedCount, skippedCount, errorCount>>
    /\ UNCHANGED <<ndVars, trVars, rsVars, caVars, anVars, wrVars>>

\* index.ts:224-278: scanWebsite returns a result; the rest of the iteration
RunScan(collected) ==
    /\ runPc = "scanning"
    /\ collected \in Collected(domainInputs[cursor + 1])
    /\ LET domainName == Get(getHostnameSafe(domainInputs[cursor + 1]))
           scanResultData == scanWebsite(collected, prepared)
       IN  /\ intermediateResults' = Append(intermediateResults, scanResultData)
           /\ RunUpdateCache(domainName, ~IsSome(scanResultData.error),
                             scanResultData.error)
           /\ decisions' = Append(decisions,
                                  [domain |-> domainName, scanned |-> TRUE,
                                   ledger |-> currentCache])
           /\ IF IsSome(scanResultData.error)
              THEN errorCount' = errorCount + 1 /\ UNCHANGED processedCount
              ELSE processedCount' = processedCount + 1 /\ UNCHANGED errorCount
    /\ cursor' = cursor + 1
    /\ runPc' = "loop"
    /\ UNCHANGED <<cacheEnabled, domainInputs, resultsFile, startCache,
                   skippedCount>>
    /\ UNCHANGED <<rsPc, finalOutput>>
    /\ UNCHANGED <<caPc, clock, upserted, asked, answer, arrays, cacheRef,
                   snapshots, lastEntry>>
    /\ UNCHANGED <<ndVars, trVars, anVars, wrVars>>

\* index.ts:224-278: scanWebsite throws (its message is that of a navigation
\* that failed); the catch branch and the rest of the iteration
RunScanThrows ==
    /\ runPc = "scanning"
    /\ LET domainName == Get(getHostnameSafe(domainInputs[cursor + 1]))
       IN  /\ intermediateResults' =
                  Append(intermediateResults,
                         ScanResult(domainName, 0, <<>>, <<>>, Some("timeout"), None))
           /\ RunUpdateCache(domainName, FALSE, Some("timeout"))
           /\ decisions' = Append(decisions,
                                  [domain |-> domainName, scanned |-> TRUE,
                                   ledger |-> currentCache])
    /\ errorCount' = errorCount + 1
    /\ cursor' = cursor + 1
    /\ runPc' = "loop"
    /\ UNCHANGED <<cacheEnabled, domainInputs, resultsFile, startCache,
                   processedCount, skippedCount>>
    /\ UNCHANGED <<rsPc, finalOutput>>
    /\ UNCHANGED <<caPc, clock, upserted, asked, answer, arrays, cacheRef,
                   snapshots, lastEntry>>
    /\ UNCHANGED <<ndVars, trVars, anVars, wrVars>>

\* the process is gone and with it what it held in memory
ProcessEnds ==
    /\ runPc' = "idle"
    /\ cacheEnabled' = FALSE
    /\ domainInputs' = <<>>
    /\ cursor' = 0
    /\ startCache' = <<>>
    /\ decisions' = <<>>
    /\ processedCount' = 0
    /\ skippedCount' = 0
    /\ errorCount' = 0
    /\ currentCache' = <<>>
    /\ intermediateResults' = <<>>
    /\ finalOutput' = None

\* faulty variant: the results are normalised as soon as one input has been
\* handled
RunNormalize_early ==
    /\ runPc = "loop"
    /\ cursor >= 1
    /\ finalOutput' = Some(normalizeResults(intermediateResults))
    /\ runPc' = "normalized"
    /\ UNCHANGED <<cacheEnabled, domainInputs, cursor, resultsFile, startCache,
                   decisions, processedCount, skippedCount, errorCount>>
    /\ UNCHANGED <<rsPc, intermediateResults>>
    /\ UNCHANGED <<ndVars, trVars, caVars, anVars, wrVars>>

\* index.ts:283-293: after the loop the results are normalised
RunNormalize ==
    /\ runPc = "loop"
    /\ cursor = Len(domainInputs)
    /\ finalOutput' = Some(normalizeResults(intermediateResults))
    /\ runPc' = "normalized"
    /\ UNCHANGED <<cacheEnabled, domainInputs, cursor, resultsFile, startCache,
                   decisions, processedCount, skippedCount, errorCount>>
    /\ UNCHANGED <<rsPc, intermediateResults>>
    /\ UNCHANGED <<ndVars, trVars, caVars, anVars, wrVars>>

\* index.ts:314-347: the normalized results are written over the results
\* file; the process ends
RunFinish ==
    /\ runPc = "normalized"
    /\ resultsFile' = finalOutput
    /\ ProcessEnds
    /\ UNCHANGED <<cacheFile, rsPc>>
    /\ UNCHANGED <<caPc, clock, upserted, asked, answer, arrays, cacheRef,
                   snapshots, lastEntry>>
    /\ UNCHANGED <<ndVars, trVars, anVars, wrVars>>

\* the process is killed inside the loop, between two inputs or during a
\* scan
RunInterrupt ==
    /\ runPc \in {"loop", "scanning"}
    /\ cursor < Len(domainInputs)
    /\ ProcessEnds
    /\ UNCHANGED <<resultsFile, cacheFile, rsPc>>
    /\ UNCHANGED <<caPc, clock, upserted, asked, answer, arrays, cacheRef,
                   snapshots, lastEntry>>
    /\ UNCHANGED <<ndVars, trVars, anVars, wrVars>>

RunNext ==
    \/ \E enabled \in BOOLEAN, inputs \in RunInputs : RunStart(enabled, inputs)
    \/ RunSkip
    \/ RunBeginScan
    \/ \E url \in RunUrls : \E collected \in Collected(url) : RunScan(collected)
    \/ RunScanThrows
    \/ RunNormalize
    \/ RunFinish
    \/ RunInterrupt

SpecRun == RunInit /\ [][RunNext]_vars

(***************************************************************************)
(* Driver of two runs of index.ts at the same time over one cache file.    *)
(* Each run loads the ledger once (index.ts:166), scans a site, upserts    *)
(* the site's entry into the ledger it holds (line 274) and writes that    *)
(* ledger to the file (line 277).  Nothing locks the file or reads it      *)
(* again before the write.  Entries written by the runs have lastChecked   *)
(* 1, those the file starts with 0.                                        *)
(***************************************************************************)
Writers == {1, 2}

WrInit ==
    /\ caPc = "idle"
    /\ cacheFile \in CacheFiles
    /\ currentCache = <<>>
    /\ clock = 0
    /\ upserted = {}
    /\ asked = <<>>
    /\ answer = FALSE
    /\ arrays = <<>>
    /\ cacheRef = 0
    /\ snapshots = <<>>
    /\ lastEntry = None
    /\ wrPc = [w \in Writers |-> "start"]
    /\ wrEntry = [w \in Writers |-> None]
    /\ wrCache = [w \in Writers |-> [loaded |-> <<>>, current |-> <<>>]]
    /\ installs = <<>>

WrLoad(w) ==
    /\ wrPc[w] = "start"
    /\ wrCache' = [wrCache EXCEPT ![w] = [loaded |-> readCacheFromFile(cacheFile),
                                          current |-> readCacheFromFile(cacheFile)]]
    /\ wrPc' = [wrPc EXCEPT ![w] = "loaded"]
    /\ UNCHANGED <<wrEntry, installs>>
    /\ UNCHANGED <<ndVars, trVars, rsVars, caVars, runVars, anVars>>

\* faulty variant: the run reads the file again and upserts into what it
\* holds now
WrUpdate_reload(w, domainName, success) ==
    /\ wrPc[w] = "loaded"
    /\ LET cacheEntry == DomainCacheEntry(domainName, 1, success,
                                          IF success THEN None ELSE Some("timeout"))
       IN  /\ wrEntry' = [wrEntry EXCEPT ![w] = Some(cacheEntry)]
           /\ wrCache' = [wrCache EXCEPT
                             ![w].current =
                                 updateOrAddCacheEntry(cacheEntry,
                                                       readCacheFromFile(cacheFile))]
    /\ wrPc' = [wrPc EXCEPT ![w] = "updated"]
    /\ UNCHANGED installs
    /\ UNCHANGED <<ndVars, trVars, rsVars, caVars, runVars, anVars>>

WrUpdate(w, domainName, success) ==
    /\ wrPc[w] = "loaded"
    /\ LET cacheEntry == DomainCacheEntry(domainName, 1, success,
                                          IF success THEN None ELSE Some("timeout"))
       IN  /\ wrEntry' = [wrEntry EXCEPT ![w] = Some(cacheEntry)]
           /\ wrCache' = [wrCache EXCEPT
                             ![w].current =
                                 updateOrAddCacheEntry(cacheEntry, wrCache[w].current)]
    /\ wrPc' = [wrPc EXCEPT ![w] = "updated"]
    /\ UNCHANGED installs
    /\ UNCHANGED <<ndVars, trVars, rsVars, caVars, runVars, anVars>>

WrWrite(w) ==
    /\ wrPc[w] = "updated"
    /\ cacheFile' = CacheFile("array", wrCache[w].current)
    /\ installs' = Append(installs, [writer |-> w, entry |-> Get(wrEntry[w]),
                                     loaded |-> wrCache[w].loaded,
                                     written |-> wrCache[w].current])
    /\ wrPc' = [wrPc EXCEPT ![w] = "written"]
    /\ UNCHANGED <<wrEntry, wrCache>>
    /\ UNCHANGED <<caPc, currentCache, clock, upserted, asked, answer, arrays,
                   cacheRef, snapshots, lastEntry>>
    /\ UNCHANGED <<ndVars, trVars, rsVars, runVars, anVars>>

WrNext ==
    \/ \E w \in Writers : WrLoad(w)
    \/ \E w \in Writers, domainName \in CacheDomains, success \in BOOLEAN :
           WrUpdate(w, domainName, success)
    \/ \E w \in Writers : WrWrite(w)

WritersInit == WrInit /\ NdIdle /\ TrIdle /\ RsIdle /\ RunIdle /\ AnIdle

SpecWriters == WritersInit /\ [][WrNext]_vars

(***************************************************************************)
(* Driver of the analytics: a normalized dataset is put together, its      *)
(* tracker dictionary first and then its scan results, and handed to       *)
(* generateAnalyticsInternal.  The dataset is any FinalOutput: a scan      *)
(* result may reference a tracker domain the dictionary does not hold.     *)
(***************************************************************************)
\* the dictionaries: none, one tracker with two categories, two trackers of
\* two owners sharing a category, and two trackers of which one has no
\* owner and no category and the other lists a category twice
Dictionaries ==
    { <<>>,
      <<[key |-> TrackerA,
         info |-> TrackerInfo("Google LLC", <<"Advertising", "Analytics">>, FALSE)]>>,
      <<[key |-> TrackerA,
         info |-> TrackerInfo("Google LLC", <<"Advertising", "Analytics">>, FALSE)],
        [key |-> TrackerB,
         info |-> TrackerInfo("Example Org", <<"Advertising">>, FALSE)]>>,
      <<[key |-> TrackerB, info |-> TrackerInfo("", <<>>, FALSE)],
        [key |-> TrackerA,
         info |-> TrackerInfo("Google LLC", <<"Analytics", "Analytics">>, FALSE)]>> }

\* the sites: one with a category and a country, one whose scan failed and
\* that has no metadata, and a second page of the first site with a country
\* only
Sites ==
    { [domain |-> SiteA, totalSize |-> 1, error |-> None,
       domainMetadata |-> Some(DomainMetadata(Some("News"), Some("CA")))],
      [domain |-> SiteB, totalSize |-> 0, error |-> Some("timeout"),
       domainMetadata |-> None],
      [domain |-> SiteA, totalSize |-> 2, error |-> None,
       domainMetadata |-> Some(DomainMetadata(None, Some("CA")))] }

\* the tracker references of a site
References ==
    { <<>>, <<TrackerA>>, <<TrackerB>>, <<TrackerA, TrackerB>>,
      <<TrackerB, TrackerA>>, <<TrackerA, TrackerA>> }

AnInit ==
    /\ anPc = "load"
    /\ data = [allTrackers |-> <<>>, scanResults |-> <<>>]
    /\ analytics = None
    /\ rawAnalytics = None

AnLoad(allTrackers) ==
    /\ anPc = "load"
    /\ data' = [data EXCEPT !.allTrackers = allTrackers]
    /\ anPc' = "collect"
    /\ UNCHANGED <<analytics, rawAnalytics>>
    /\ UNCHANGED <<ndVars, trVars, rsVars, caVars, runVars, wrVars>>

AnAddResult(site, trackerDomains) ==
    /\ anPc = "collect"
    /\ Len(data.scanResults) < MaxResults
    /\ data' = [data EXCEPT
                   !.scanResults = Append(@, NormalizedScanResult(site, trackerDomains))]
    /\ UNCHANGED <<anPc, analytics, rawAnalytics>>
    /\ UNCHANGED <<ndVars, trVars, rsVars, caVars, runVars, wrVars>>

AnGenerate ==
    /\ anPc = "collect"
    /\ analytics' = Some(generateAnalyticsInternal(data))
    /\ anPc' = "done"
    /\ UNCHANGED <<data, rawAnalytics>>
    /\ UNCHANGED <<ndVars, trVars, rsVars, caVars, runVars, wrVars>>

AnNext ==
    \/ \E allTrackers \in Dictionaries : AnLoad(allTrackers)
    \/ \E site \in Sites, trackerDomains \in References :
           AnAddResult(site, trackerDomains)
    \/ AnGenerate

AnalyticsInit == AnInit /\ NdIdle /\ TrIdle /\ RsIdle /\ CaIdle /\ RunIdle /\ WrIdle

SpecAnalytics == AnalyticsInit /\ [][AnNext]_vars

(***************************************************************************)
(* Driver of the rankings: a dataset large enough for getTopN to cut its   *)
(* lists.  The dictionary holds up to MaxRanked trackers, each with an     *)
(* owner and a category of its own; a first site references all of them,   *)
(* last one first, and a second site of the same category references up to *)
(* MaxRepeated of them again, so that some counts are 2 and the others 1.  *)
(***************************************************************************)
RankedDomain(k) == [i \in 1..k |-> "a"]

RankedDictionary(k) ==
    [i \in 1..k |->
        [key |-> RankedDomain(i),
         info |-> TrackerInfo("Owner " \o ToString(i),
                              <<"Category " \o ToString(i)>>, FALSE)]]

RankedFirstSite ==
    [domain |-> SiteA, totalSize |-> 1, error |-> None,
     domainMetadata |-> Some(DomainMetadata(Some("News"), Some("CA")))]

RankedSecondSite ==
    [domain |-> SiteB, totalSize |-> 1, error |-> None,
     domainMetadata |-> Some(DomainMetadata(Some("News"), None))]

RkLoad(k) ==
    /\ anPc = "load"
    /\ data' = [allTrackers |-> RankedDictionary(k),
                scanResults |->
                    <<NormalizedScanResult(RankedFirstSite,
                                           [i \in 1..k |-> RankedDomain(k + 1 - i)]),
                      NormalizedScanResult(RankedSecondSite, <<>>)>>]
    /\ anPc' = "collect"
    /\ UNCHANGED <<analytics, rawAnalytics>>
    /\ UNCHANGED <<ndVars, trVars, rsVars, caVars, runVars, wrVars>>

\* the second site references one more tracker, a longer domain than those
\* it references already
RkRepeat(k) ==
    /\ anPc = "collect"
    /\ k \in 1..Len(data.allTrackers)
    /\ Len(data.scanResults[2].trackerDomains) < MaxRepeated
    /\ \A i \in 1..Len(data.scanResults[2].trackerDomains) :
           Len(data.scanResults[2].trackerDomains[i]) < k
    /\ data' = [data EXCEPT
                   !.scanResults[2].trackerDomains = Append(@, RankedDomain(k))]
    /\ UNCHANGED <<anPc, analytics, rawAnalytics>>
    /\ UNCHANGED <<ndVars, trVars, rsVars, caVars, runVars, wrVars>>

RkNext ==
    \/ \E k \in 1..MaxRanked : RkLoad(k)
    \/ \E k \in 1..MaxRanked : RkRepeat(k)
    \/ AnGenerate

SpecRanking == AnalyticsInit /\ [][RkNext]_vars

(***************************************************************************)
(* Driver of the two aggregators over one file of raw scan results: the    *)
(* script of scripts/analytics.ts hands the results to generateAnalytics,  *)
(* the other script normalises them and hands the dataset to               *)
(* generateAnalyticsInternal.  A tracker domain may be sighted with        *)
(* different infos.                                                        *)
(***************************************************************************)
AgInfoA == TrackerInfo("Google LLC", <<"Advertising", "Analytics">>, FALSE)

AgInfoB == TrackerInfo("Example Org", <<"Advertising">>, FALSE)

\* the other info the first tracker domain is sighted with: no owner, no
\* category
AgInfoOther == TrackerInfo("", <<>>, FALSE)

AgSighting(domain, info) == [domain |-> domain, info |-> info]

AgTrackerLists ==
    { <<>>,
      <<AgSighting(TrackerA, AgInfoA)>>,
      <<AgSighting(TrackerB, AgInfoB)>>,
      <<AgSighting(TrackerA, AgInfoA), AgSighting(TrackerB, AgInfoB)>>,
      <<AgSighting(TrackerB, AgInfoB), AgSighting(TrackerA, AgInfoA)>>,
      <<AgSighting(TrackerA, AgInfoA), AgSighting(TrackerA, AgInfoA)>>,
      <<AgSighting(TrackerA, AgInfoOther)>>,
      <<AgSighting(TrackerA, AgInfoOther), AgSighting(TrackerB, AgInfoB)>> }

AgInit ==
    /\ rsPc = "collect"
    /\ intermediateResults = <<>>
    /\ finalOutput = None
    /\ anPc = "raw"
    /\ data = [allTrackers |-> <<>>, scanResults |-> <<>>]
    /\ analytics = None
    /\ rawAnalytics = None

AgAddResult(site, trackers) ==
    /\ rsPc = "collect"
    /\ Len(intermediateResults) < MaxResults
    /\ intermediateResults' =
           Append(intermediateResults,
                  ScanResult(site.domain, site.totalSize, <<>>, trackers,
                             site.error, site.domainMetadata))
    /\ UNCHANGED <<rsPc, finalOutput>>
    /\ UNCHANGED <<ndVars, trVars, caVars, runVars, anVars, wrVars>>

\* scripts/analytics.ts, runAnalytics: the raw results go to
\* generateAnalytics
AgAnalyzeRaw ==
    /\ rawAnalytics = None
    /\ rawAnalytics' = Some(generateAnalytics(intermediateResults))
    /\ rsPc' = "saved"
    /\ UNCHANGED <<intermediateResults, finalOutput>>
    /\ UNCHANGED <<anPc, data, analytics>>
    /\ UNCHANGED <<ndVars, trVars, caVars, runVars, wrVars>>

\* the other runAnalytics: the raw results are normalised and the dataset
\* goes to generateAnalyticsInternal
AgAnalyzeNormalized ==
    /\ analytics = None
    /\ finalOutput' = Some(normalizeResults(intermediateResults))
    /\ data' = normalizeResults(intermediateResults)
    /\ analytics' = Some(generateAnalyticsInternal(data'))
    /\ rsPc' = "saved"
    /\ anPc' = "done"
    /\ UNCHANGED <<intermediateResults, rawAnalytics>>
    /\ UNCHANGED <<ndVars, trVars, caVars, runVars, wrVars>>

AgNext ==
    \/ \E site \in Sites, trackers \in AgTrackerLists : AgAddResult(site, trackers)
    \/ AgAnalyzeRaw
    \/ AgAnalyzeNormalized

AggregatorsInit == AgInit /\ NdIdle /\ TrIdle /\ CaIdle /\ RunIdle /\ WrIdle

SpecAggregators == AggregatorsInit /\ [][AgNext]_vars

(***************************************************************************)
(* Claims about normalizeDomain                                            *)
(***************************************************************************)
\* the four characters of s from position i on are "www." in any letter case
HasWwwAt(s, i) ==
    /\ Len(s) >= i + 3
    /\ LowerChar(s[i]) = "w"
    /\ LowerChar(s[i + 1]) = "w"
    /\ LowerChar(s[i + 2]) = "w"
    /\ s[i + 3] = "."

\* C3 as stated: normalizeDomain is idempotent, for every domain string d
\* normalizeDomain(normalizeDomain(d)) = normalizeDomain(d).
C3_IdempotentAll == ndPc = "done" => ndTwice = ndOut

\* C3 amended: normalizeDomain(normalizeDomain(d)) = normalizeDomain(d) for
\* every d that does not begin with two consecutive "www." labels (in any
\* letter case); for a d that does, the second application removes one more
\* "www." label, so the two results differ.
C3_IdempotentUnlessDoubleWww ==
    ndPc = "done" =>
        IF HasWwwAt(ndIn, 1) /\ HasWwwAt(ndIn, 5)
        THEN /\ ndTwice # ndOut
             /\ Len(ndTwice) = Len(ndOut) - 4
        ELSE ndTwice = ndOut

C3_Witness ==
    /\ ndPc = "done"
    /\ ndIn = <<"W", "w", "w", ".", "a", ".", "a">>
    /\ ndOut = <<"a", ".", "a">>
    /\ ndTwice = ndOut

\* C4: normalizeDomain never fails; it returns "" for "", and otherwise the
\* lower-cased input without its first four characters when these are
\* "www." (after lower-casing), and the lower-cased input itself when they
\* are not: a "www." further inside the string stays.
C4_NormalizeDomainContract ==
    ndPc = "done" =>
        LET k == IF HasWwwAt(ndIn, 1) THEN 4 ELSE 0
        IN  /\ ndOut \in Seq(Alphabet)
            /\ Len(ndOut) = Len(ndIn) - k
            /\ \A i \in 1..Len(ndOut) : ndOut[i] = LowerChar(ndIn[i + k])
            /\ ndIn = <<>> => ndOut = <<>>

C4_Witness ==
    /\ ndPc = "done"
    /\ ndIn = <<"a", ".", "W", "w", "w", ".", "a">>
    /\ ndOut = <<"a", ".", "w", "w", "w", ".", "a">>

(***************************************************************************)
(* Claims about findTrackerInfo                                            *)
(***************************************************************************)
\* the keys of the registry prepareTrackerData was given
RegistryKeys == OwnKeys(trackerList.trackers)

\* d is sub.k for some non-empty sub: d ends with "." followed by k
IsSubdomainOf(d, k) ==
    /\ Len(d) > Len(k)
    /\ d[Len(d) - Len(k)] = "."
    /\ \A i \in 1..Len(k) : d[Len(d) - Len(k) + i] = k[i]

\* C1: with an index built by prepareTrackerData, findTrackerInfo returns
\* an entry exactly when the normalized observed domain is non-empty and
\* equals a normalized registry key or ends with "." followed by a
\* non-empty normalized registry key; otherwise it returns null.  A key that
\* is a suffix of the observed domain without a "." before it never matches.
C1_MatchIffEqualOrSubdomain ==
    (trPc = "resolved" /\ IsSome(prepared)) =>
        LET d == normalizeDomain(observed)
        IN  IsSome(found) <=>
                /\ d # <<>>
                /\ \E key \in RegistryKeys :
                      LET k == normalizeDomain(key)
                      IN  d = k \/ (k # <<>> /\ IsSubdomainOf(d, k))

C1_Witness ==
    /\ trPc = "resolved"
    /\ IsSome(prepared)
    /\ RegistryKeys = {<<"a", ".", "a">>}
    /\ observed = <<"W", "w", "w", ".", "a", ".", "a", ".", "a">>
    /\ IsSome(found)

\* C2: when the normalized observed domain is no key of the index,
\* findTrackerInfo returns the entry of the first index key, in insertion
\* order, that the observed domain is a subdomain of, whether or not a
\* later key is more specific.
C2_FirstSuffixWins ==
    (trPc = "resolved" /\ IsSome(prepared)) =>
        LET d == normalizeDomain(observed)
            m == Get(prepared).normalizedMap
            Matches(i) == m[i][1] # <<>> /\ IsSubdomainOf(d, m[i][1])
        IN  (d # <<>> /\ \A i \in 1..Len(m) : m[i][1] # d) =>
                \A i \in 1..Len(m) :
                    (Matches(i) /\ \A j \in 1..(i - 1) : ~Matches(j)) =>
                        found = Some(Property(trackerList.trackers, m[i][2]))

C2_Witness ==
    /\ trPc = "resolved"
    /\ IsSome(prepared)
    /\ trackerList.trackers =
           << [key |-> <<"a">>, info |-> TrackerInfo("Google LLC", <<>>, FALSE)],
              [key |-> <<"a", ".", "a">>, info |-> TrackerInfo("Example Org", <<>>, FALSE)] >>
    /\ observed = <<"a", ".", "a", ".", "a">>
    /\ found = Some(TrackerInfo("Google LLC", <<>>, FALSE))

\* C27 as stated: whenever the normalized observed domain is a key of the
\* index, findTrackerInfo returns the entry of the registry key the index
\* maps it to.
C27_ExactMatchReturned ==
    (trPc = "resolved" /\ IsSome(prepared)) =>
        LET d == normalizeDomain(observed)
            m == Get(prepared).normalizedMap
        IN  MapHas(m, d) =>
                found = Some(Property(trackerList.trackers, Get(MapGet(m, d))))

\* C27 (amended): whenever the normalized observed domain is not empty and is
\* a key of the index, findTrackerInfo returns the entry of the registry key
\* the index maps it to, also when an earlier key of the index is a
\* subdomain suffix of it; when it is empty findTrackerInfo returns null,
\* also when the empty string is a key of the index.
C27_ExactMatchBeforeSuffix ==
    (trPc = "resolved" /\ IsSome(prepared)) =>
        LET d == normalizeDomain(observed)
            m == Get(prepared).normalizedMap
        IN  /\ (d # <<>> /\ MapHas(m, d)) =>
                   found = Some(Property(trackerList.trackers, Get(MapGet(m, d))))
            /\ d = <<>> => found = None

\* the registry lists "a" and then "a.a", and "a.a" is observed: the entry
\* of "a.a" is returned, not that of its suffix "a"
C27_Witness ==
    /\ trPc = "resolved"
    /\ IsSome(prepared)
    /\ trackerList.trackers =
           << [key |-> <<"a">>, info |-> TrackerInfo("Google LLC", <<>>, FALSE)],
              [key |-> <<"a", ".", "a">>, info |-> TrackerInfo("Example Org", <<>>, FALSE)] >>
    /\ observed = <<"a", ".", "a">>
    /\ found = Some(TrackerInfo("Example Org", <<>>, FALSE))

\* the registry holds the key "www.", whose index key is empty, and "www."
\* is observed: null
C27_WitnessEmpty ==
    /\ trPc = "resolved"
    /\ IsSome(prepared)
    /\ MapHas(Get(prepared).normalizedMap, <<>>)
    /\ normalizeDomain(observed) = <<>>
    /\ found = None

(***************************************************************************)
(* Claims about normalizeResults and the scan pipeline                     *)
(***************************************************************************)
AllTrackers == Get(finalOutput).allTrackers

ScanResults == Get(finalOutput).scanResults

\* the (result, position) pairs of the raw batch, and their batch order
Sightings ==
    UNION {{<<r, j>> : j \in 1..Len(intermediateResults[r].trackers)} :
              r \in 1..Len(intermediateResults)}

RawPair(p) == intermediateResults[p[1]].trackers[p[2]]

Earlier(p, q) == p[1] < q[1] \/ (p[1] = q[1] /\ p[2] < q[2])

\* p is the sighting that introduces its tracker domain into the batch
Introduces(p) ==
    \A q \in Sightings : Earlier(q, p) => RawPair(q).domain # RawPair(p).domain

\* C5 as stated: after identifyTrackers over a registry and normalizeResults,
\* no entry of allTrackers carries a 'rules' attribute, even when the
\* registry entry that was matched has one.
C5_NoRulesInAllTrackers ==
    rsPc = "normalized" =>
        \A i \in 1..Len(AllTrackers) : ~AllTrackers[i].info.rules

C7_FirstSiteWins ==
    rsPc = "normalized" =>
        \A p \in Sightings :
            Introduces(p) =>
                \E i \in 1..Len(AllTrackers) :
                    /\ AllTrackers[i].key = RawPair(p).domain
                    /\ AllTrackers[i].info = RawPair(p).info

C7_Witness ==
    /\ rsPc = "normalized"
    /\ Len(intermediateResults) = 2
    /\ intermediateResults[1].trackers =
           << [domain |-> TrackerA, info |-> TrackerInfo("Google LLC", <<>>, FALSE)] >>
    /\ intermediateResults[2].trackers =
           << [domain |-> TrackerA, info |-> TrackerInfo("Example Org", <<>>, FALSE)] >>
    /\ AllTrackers =
           << [key |-> TrackerA, info |-> TrackerInfo("Google LLC", <<>>, FALSE)] >>

\* the (domain, info) pairs a normalized scan result re-expands to
Expand(normalized) ==
    [j \in 1..Len(normalized.trackerDomains) |->
        [domain |-> normalized.trackerDomains[j],
         info |-> Property(AllTrackers, normalized.trackerDomains[j])]]

\* C8: round trip.  Re-expanding the trackerDomains of each normalized scan
\* result through allTrackers yields as many pairs as the raw result lists,
\* with the same domains in the same order, and the pair of every sighting
\* that introduced its tracker domain is the original (domain, info) pair:
\* a site that introduced all its tracker domains, each listed once, is
\* reproduced exactly.
C8_RoundTrip ==
    rsPc = "normalized" =>
        /\ Len(ScanResults) = Len(intermediateResults)
        /\ \A r \in 1..Len(intermediateResults) :
              LET raw == intermediateResults[r].trackers
                  back == Expand(ScanResults[r])
              IN  /\ Len(back) = Len(raw)
                  /\ \A j \in 1..Len(raw) :
                        /\ back[j].domain = raw[j].domain
                        /\ Introduces(<<r, j>>) => back[j] = raw[j]

C8_Witness ==
    /\ rsPc = "normalized"
    /\ Len(intermediateResults) = 2
    /\ intermediateResults[1].trackers =
           << [domain |-> TrackerB, info |-> TrackerInfo("Example Org", <<>>, FALSE)],
              [domain |-> TrackerA, info |-> TrackerInfo("Google LLC", <<>>, FALSE)] >>
    /\ intermediateResults[2].trackers =
           << [domain |-> TrackerA, info |-> TrackerInfo("Example Org", <<>>, FALSE)] >>
    /\ Expand(ScanResults[1]) = intermediateResults[1].trackers
    /\ Expand(ScanResults[2]) # intermediateResults[2].trackers

(***************************************************************************)
(* Claims about the cache ledger                                           *)
(***************************************************************************)
\* C9 as stated: checkDomainProcessed(domain, ledger) is true exactly when
\* the ledger contains an entry for the domain with success = true, for
\* every ledger, one read from a file with several entries for the same
\* domain included.
C9_ProcessedIffSomeSuccess ==
    caPc = "checked" =>
        (answer <=> \E i \in 1..Len(currentCache) :
                        currentCache[i].domain = asked /\ currentCache[i].success)

\* C9 amended: checkDomainProcessed(domain, ledger) is true exactly when the
\* first entry for the domain in the ledger has success = true; it is false
\* when the domain has no entry or when its first entry failed, whatever
\* later entries for the same domain say.  For a ledger with at most one
\* entry per domain this is: some entry for the domain has success = true.
C9_ProcessedIffFirstSuccess ==
    caPc = "checked" =>
        /\ answer <=> \E i \in 1..Len(currentCache) :
                          /\ currentCache[i].domain = asked
                          /\ currentCache[i].success
                          /\ \A j \in 1..(i - 1) : currentCache[j].domain # asked
        /\ (\A i, j \in 1..Len(currentCache) :
                currentCache[i].domain = currentCache[j].domain => i = j)
               => (answer <=> \E i \in 1..Len(currentCache) :
                                  currentCache[i].domain = asked /\ currentCache[i].success)

C9_Witness ==
    /\ caPc = "checked"
    /\ cacheFile.kind = "array"
    /\ Len(currentCache) = 2
    /\ currentCache[1].domain = SiteA /\ ~currentCache[1].success
    /\ currentCache[2].domain = SiteA /\ currentCache[2].success
    /\ asked = SiteA
    /\ answer = FALSE

\* C10: starting from the empty ledger, after any sequence of
\* updateOrAddCacheEntry calls the ledger holds at most one entry per domain
\* and as many entries as distinct domains were upserted.
C10_OneEntryPerDomain ==
    (caPc \in {"loaded", "checked"} /\ readCacheFromFile(cacheFile) = <<>>) =>
        /\ \A i, j \in 1..Len(currentCache) :
              currentCache[i].domain = currentCache[j].domain => i = j
        /\ Len(currentCache) = Cardinality(upserted)
        /\ {currentCache[i].domain : i \in 1..Len(currentCache)} = upserted

C10_Witness ==
    /\ caPc = "loaded"
    /\ readCacheFromFile(cacheFile) = <<>>
    /\ clock = 3
    /\ upserted = {SiteA, SiteB}
    /\ Len(currentCache) = 2

\* C11: updateOrAddCacheEntry(entry, ledger) puts the entry at the position
\* of the first entry of entry.domain and leaves every other entry and the
\* length of the ledger as they were; when the domain is absent the result
\* is the ledger with the entry appended.
C11_ReplaceInPlaceOrAppend ==
    IsSome(lastEntry) =>
        LET entry == Get(lastEntry)
            before == snapshots[Len(snapshots) - 1].entries
            after == snapshots[Len(snapshots)].entries
            present == {i \in 1..Len(before) : before[i].domain = entry.domain}
        IN  /\ after = currentCache
            /\ present # {} =>
                  /\ Len(after) = Len(before)
                  /\ \E i \in present :
                        /\ \A j \in present : i <= j
                        /\ after[i] = entry
                        /\ \A j \in 1..Len(before) : j # i => after[j] = before[j]
            /\ present = {} => after = before \o <<entry>>

\* an entry that is not the last one was replaced, and the ledger also took
\* an appended entry
C11_Witness ==
    /\ IsSome(lastEntry)
    /\ Len(snapshots) = 4
    /\ Len(snapshots[1].entries) = 0
    /\ Len(snapshots[3].entries) = 2
    /\ Get(lastEntry).domain = snapshots[3].entries[1].domain
    /\ Get(lastEntry) # snapshots[3].entries[1]
    /\ currentCache[1] = Get(lastEntry)
    /\ currentCache[2] = snapshots[3].entries[2]

\* C12: updateOrAddCacheEntry never writes the array it is given: every ledger
\* returned earlier (by readCacheFromFile or by an earlier upsert) still has
\* the entries, in the order, that it had when it was returned.
C12_SnapshotsNeverChange ==
    \A s \in 1..Len(snapshots) :
        arrays[snapshots[s].ref] = snapshots[s].entries

\* three upserts, one of them replacing, and the ledger that was read and
\* the ledgers in between all differ from the current one
C12_Witness ==
    /\ Len(snapshots) = 4
    /\ Len(currentCache) = 2
    /\ \A s \in 1..3 : snapshots[s].entries # currentCache
    /\ Len(snapshots[1].entries) = 1
    /\ \A s \in 1..4 : arrays[snapshots[s].ref] = snapshots[s].entries
    /\ Cardinality({snapshots[s].ref : s \in 1..4}) = 4

(***************************************************************************)
(* Claims about the runs of index.ts                                       *)
(***************************************************************************)
\* the entries of the cache file on disk
PersistedCache == readCacheFromFile(cacheFile)

\* the site domains whose scan result is in the results file on disk
PersistedResultDomains ==
    IF IsSome(resultsFile)
    THEN {Get(resultsFile).scanResults[i].domain :
              i \in 1..Len(Get(resultsFile).scanResults)}
    ELSE {}

\* C13: results are saved progressively: at every point of a run every site
\* whose scan has completed has its result in the results file on disk, and a
\* domain that the cache file on disk records as successfully processed has
\* its scan result in the results file on disk.
C13_ResultsPersistedProgressively ==
    /\ \A i \in 1..Len(intermediateResults) :
          intermediateResults[i].domain \in PersistedResultDomains
    /\ \A i \in 1..Len(PersistedCache) :
          PersistedCache[i].success =>
              PersistedCache[i].domain \in PersistedResultDomains

\* a run scanned a site successfully, wrote that to the cache file, and was
\* interrupted before it wrote any results file
C13_LostToInterrupt ==
    /\ runPc = "idle"
    /\ resultsFile = None
    /\ \E i \in 1..Len(PersistedCache) : PersistedCache[i].success

\* a later run skipped every site and wrote a results file without the
\* result an earlier run had saved
C13_LostToRerun ==
    /\ runPc = "idle"
    /\ IsSome(resultsFile)
    /\ Get(resultsFile).scanResults = <<>>
    /\ \E i \in 1..Len(PersistedCache) : PersistedCache[i].success

\* the ledger holds an entry of the domain with success = true
HasSuccessEntry(ledger, domain) ==
    \E i \in 1..Len(ledger) : ledger[i].domain = domain /\ ledger[i].success

\* C14: with the cache enabled, a run skips exactly the input sites whose
\* hostname has an entry with success = true in the ledger the run started
\* from, and scans every other site.
C14_SkipsBySuccessInStartLedger ==
    (runPc = "loop" /\ cacheEnabled) =>
        \A k \in 1..Len(decisions) :
            ~decisions[k].scanned <=> HasSuccessEntry(startCache, decisions[k].domain)

\* C14 amended: with the cache enabled, a run skips exactly the input sites
\* whose hostname has an entry with success = true in the current ledger when
\* the site is reached, that is the ledger the run started from updated with
\* the scans the run has made so far; every other site is scanned.  For a
\* site whose hostname no earlier input of the run has, that is the ledger
\* left by the earlier runs.  A ledger left by runs that started without a
\* cache file has one entry per hostname at most.  With the cache disabled
\* every site is scanned.
C14_SkipsBySuccessInCurrentLedger ==
    runPc = "loop" =>
        /\ \A k \in 1..Len(decisions) :
              /\ ~decisions[k].scanned <=>
                     (cacheEnabled /\ HasSuccessEntry(decisions[k].ledger,
                                                      decisions[k].domain))
              /\ (\A j \in 1..(k - 1) : decisions[j].domain # decisions[k].domain)
                     => (~decisions[k].scanned <=>
                            (cacheEnabled /\ HasSuccessEntry(startCache,
                                                             decisions[k].domain)))
        /\ \A i, j \in 1..Len(startCache) :
              startCache[i].domain = startCache[j].domain => i = j
        /\ cacheEnabled => startCache = PersistedCache \/ decisions # <<>>

\* a run that started from a ledger with a failed entry of one site and a
\* successful entry of another has scanned the first and skipped the second
C14_Witness ==
    /\ runPc = "loop"
    /\ cacheEnabled
    /\ Len(decisions) = 2
    /\ \E i \in 1..Len(startCache) :
          startCache[i].domain = decisions[1].domain /\ ~startCache[i].success
    /\ HasSuccessEntry(startCache, decisions[2].domain)
    /\ decisions[1].scanned
    /\ ~decisions[2].scanned

(***************************************************************************)
(* Claims about generateAnalyticsInternal                                  *)
(***************************************************************************)
\* C15: generateAnalyticsInternal throws, and gives no report, when the
\* dataset has no scan result; for every dataset with one scan result or
\* more it returns a report, for as many sites as the dataset has.
C15_ThrowsIffNoResults ==
    anPc = "done" =>
        /\ Get(analytics).threw <=> data.scanResults = <<>>
        /\ ~Get(analytics).threw =>
              Get(analytics).output.summary.totalSitesProcessed
                  = Len(data.scanResults)

\* both cases: the empty dataset threw; a dataset of sites without any
\* tracker reference and with an empty dictionary gave a report
C15_WitnessThrown ==
    /\ anPc = "done"
    /\ data.scanResults = <<>>
    /\ data.allTrackers # <<>>
    /\ Get(analytics).threw

C15_WitnessReport ==
    /\ anPc = "done"
    /\ Len(data.scanResults) = 2
    /\ data.allTrackers = <<>>
    /\ \A i \in 1..2 : data.scanResults[i].trackerDomains = <<>>
    /\ ~Get(analytics).threw
    /\ Get(analytics).output.summary.sitesWithTrackers = 0

\* the dataset without the references to tracker domains that are not in
\* allTrackers
WithoutMissing(dataset) ==
    [dataset EXCEPT
        !.scanResults =
            [i \in 1..Len(@) |->
                [@[i] EXCEPT
                    !.trackerDomains =
                        SelectSeq(@, LAMBDA d : HasOwn(dataset.allTrackers, d))]]]

\* the per-domain, per-owner, per-category and per-group structures
Structures(totals) ==
    <<totals.trackerDomainSiteMap, totals.trackerOwnerSiteMap,
      totals.trackerCategoryInstanceMap, totals.categoryData, totals.countryData,
      totals.categoryOwnerMap, totals.countryOwnerMap>>

\* C16: a reference to a tracker domain that is not in allTrackers never
\* makes the aggregation throw; it is in no per-domain, per-owner,
\* per-category or per-group structure, and these structures, the domain
\* and owner rankings and the group analyses are those of the dataset
\* without the missing references.
C16_MissingReferenceSkipped ==
    (anPc = "done" /\ data.scanResults # <<>>) =>
        LET got == Get(analytics)
            clean == generateAnalyticsInternal(WithoutMissing(data))
        IN  /\ ~got.threw
            /\ \A i \in 1..Len(got.totals.trackerDomainSiteMap) :
                  HasOwn(data.allTrackers, got.totals.trackerDomainSiteMap[i][1])
            /\ Structures(got.totals) = Structures(clean.totals)
            /\ got.output.topTrackerDomains = clean.output.topTrackerDomains
            /\ got.output.topTrackerOwners = clean.output.topTrackerOwners
            /\ got.output.analysisByCategory = clean.output.analysisByCategory
            /\ got.output.analysisByCountry = clean.output.analysisByCountry

\* a site references a tracker of the dictionary and one that is missing,
\* and another site references the missing one only
C16_Witness ==
    /\ anPc = "done"
    /\ Len(data.allTrackers) = 1
    /\ data.allTrackers[1].key = TrackerA
    /\ Len(data.scanResults) = 2
    /\ data.scanResults[1].trackerDomains = <<TrackerB, TrackerA>>
    /\ data.scanResults[2].trackerDomains = <<TrackerB>>
    /\ ~Get(analytics).threw
    /\ Len(Get(analytics).totals.trackerDomainSiteMap) = 1
    /\ Get(analytics).output.summary.totalTrackerInstances = 3

\* the number of times the category is listed by the entries of the first n
\* references of a scan result that are in allTrackers
RECURSIVE CategoryReferences(_, _, _, _)
CategoryReferences(category, result, allTrackers, n) ==
    IF n = 0 THEN 0
    ELSE CategoryReferences(category, result, allTrackers, n - 1)
           + (IF HasOwn(allTrackers, result.trackerDomains[n])
              THEN LET categories ==
                           Property(allTrackers, result.trackerDomains[n]).categories
                   IN  Cardinality({j \in 1..Len(categories) :
                                       categories[j] = category})
              ELSE 0)

\* every category an entry of allTrackers lists
AllCategories ==
    UNION {{data.allTrackers[i].info.categories[j] :
                j \in 1..Len(data.allTrackers[i].info.categories)} :
           i \in 1..Len(data.allTrackers)}

\* C20: the per-category counter is incremented once per (tracker reference,
\* category) pair: the count of a category is the number of pairs (site,
\* resolved reference of the site) whose entry lists it, each occurrence in
\* the entry's categories counted; a category no resolved reference lists
\* has no counter; the category ranking carries these counts.
C20_CategoryCountPerReference ==
    (anPc = "done" /\ data.scanResults # <<>>) =>
        LET counts == Get(analytics).totals.trackerCategoryInstanceMap
            Expected(c) ==
                Sum([i \in 1..Len(data.scanResults) |->
                        CategoryReferences(c, data.scanResults[i], data.allTrackers,
                                           Len(data.scanResults[i].trackerDomains))])
        IN  /\ \A c \in AllCategories :
                  IF Expected(c) = 0 THEN ~MapHas(counts, c)
                  ELSE MapGet(counts, c) = Some(Expected(c))
            /\ \A i \in 1..Len(counts) : counts[i][1] \in AllCategories
            /\ \A i, j \in 1..Len(counts) : counts[i][1] = counts[j][1] => i = j
            /\ \A c \in AllCategories :
                  MapHas(counts, c) =>
                      \E k \in 1..Len(Get(analytics).output.topTrackerCategories) :
                          /\ Get(analytics).output.topTrackerCategories[k].name = c
                          /\ Get(analytics).output.topTrackerCategories[k].count
                                 = Expected(c)

\* two sites reference, three times in all, a tracker with two categories:
\* six increments, three per category
C20_Witness ==
    /\ anPc = "done"
    /\ Len(data.scanResults) = 2
    /\ data.scanResults[1].trackerDomains = <<TrackerA>>
    /\ data.scanResults[2].trackerDomains = <<TrackerA, TrackerA>>
    /\ HasOwn(data.allTrackers, TrackerA)
    /\ Property(data.allTrackers, TrackerA).categories = <<"Advertising", "Analytics">>
    /\ Get(analytics).totals.trackerCategoryInstanceMap
           = <<<<"Advertising", 3>>, <<"Analytics", 3>>>>

(***************************************************************************)
(* Claims about the tracker index and the guards of the resolver           *)
(***************************************************************************)
\* C17: findTrackerInfo returns null for every observed domain when the
\* prepared data is null or its index is empty, and for every observed
\* domain whose normalized form is empty ("" and "www." in any case)
\* whatever the index holds.
C17_NullForNoIndexOrEmptyDomain ==
    trPc = "resolved" =>
        /\ ~IsSome(prepared) => found = None
        /\ (IsSome(prepared) /\ Get(prepared).normalizedMap = <<>>) => found = None
        /\ ToLowerCase(observed) \in {<<>>, Www} => found = None

\* the index maps the empty string to the registry key "www." and the
\* observed domain "Www." is resolved
C17_Witness ==
    /\ trPc = "resolved"
    /\ IsSome(prepared)
    /\ MapGet(Get(prepared).normalizedMap, <<>>) = Some(Www)
    /\ observed = <<"W", "w", "w", ".">>
    /\ found = None

\* the load failed, the prepared data is null, and a domain was resolved
C17_WitnessNull ==
    /\ trPc = "resolved"
    /\ ~IsSome(prepared)
    /\ observed = <<"a", ".", "a">>
    /\ found = None

\* C18: prepareTrackerData returns an empty index together with the empty
\* registry {trackers: {}} when the registry is null or missing or its
\* 'trackers' member is missing, null, an array or not an object; for a
\* registry whose trackers object is empty it returns an empty index and
\* the registry itself.
C18_MalformedGivesEmptyIndex ==
    (trPc \in {"ready", "resolved"} /\ IsSome(prepared)) =>
        /\ trackerList.shape # "object" =>
              /\ Get(prepared).normalizedMap = <<>>
              /\ Get(prepared).originalList = TrackerList("object", <<>>)
        /\ (trackerList.shape = "object" /\ trackerList.trackers = <<>>) =>
              /\ Get(prepared).normalizedMap = <<>>
              /\ Get(prepared).originalList = trackerList

C18_Witness ==
    /\ trPc = "ready"
    /\ trackerList.shape = "trackersArray"
    /\ IsSome(prepared)
    /\ Get(prepared).normalizedMap = <<>>

\* C19: every key of the index is the normalized form of a registry key,
\* every value of the index is a registry key (one that normalizes to the
\* key it is stored under), no key is in the index twice, and the index maps
\* the normalized form of every registry key to the last registry key, in
\* iteration order, with that normalized form.
C19_IndexLastWriteWins ==
    (trPc \in {"ready", "resolved"} /\ IsSome(prepared)
        /\ trackerList.shape = "object") =>
        LET normalizedMap == Get(prepared).normalizedMap
            trackers == trackerList.trackers
        IN  /\ \A e \in 1..Len(normalizedMap) :
                  /\ \E i \in 1..Len(trackers) :
                        normalizeDomain(trackers[i].key) = normalizedMap[e][1]
                  /\ HasOwn(trackers, normalizedMap[e][2])
                  /\ normalizeDomain(normalizedMap[e][2]) = normalizedMap[e][1]
                  /\ \A f \in 1..Len(normalizedMap) :
                        normalizedMap[f][1] = normalizedMap[e][1] => f = e
            /\ \A i \in 1..Len(trackers) :
                  \E e \in 1..Len(normalizedMap) :
                      /\ normalizedMap[e][1] = normalizeDomain(trackers[i].key)
                      /\ \E last \in i..Len(trackers) :
                            /\ normalizedMap[e][2] = trackers[last].key
                            /\ \A j \in (last + 1)..Len(trackers) :
                                  normalizeDomain(trackers[j].key)
                                      # normalizeDomain(trackers[i].key)

\* the registry lists "a" and then "www.a": one index key, mapped to "www.a"
C19_Witness ==
    /\ trPc = "ready"
    /\ IsSome(prepared)
    /\ Len(trackerList.trackers) = 2
    /\ trackerList.trackers[1].key = <<"a">>
    /\ trackerList.trackers[2].key = <<"w", "w", "w", ".", "a">>
    /\ Get(prepared).normalizedMap = << <<<<"a">>, <<"w", "w", "w", ".", "a">>>> >>

(***************************************************************************)
(* Claims about the figures of the report                                  *)
(***************************************************************************)
\* the number of tracker references of each site of the dataset
ReferenceCounts == [i \in 1..Len(data.scanResults) |->
                       Len(data.scanResults[i].trackerDomains)]

\* the k-th smallest of the counts: fewer than k counts lie below it and at
\* least k counts do not exceed it
KthSmallest(counts, k) ==
    CHOOSE v \in {counts[i] : i \in 1..Len(counts)} :
        /\ Cardinality({i \in 1..Len(counts) : counts[i] < v}) < k
        /\ Cardinality({i \in 1..Len(counts) : counts[i] <= v}) >= k

\* C21: in the report of a dataset with one scan result or more, min and max
\* of trackerCountDistribution are the least and the greatest number of
\* tracker references of a site, median is the middle one of these numbers
\* (the average of the two middle ones when the sites are even in number),
\* min <= median <= max, and mean equals summary.averageTrackersPerSite.
\* median and mean are in hundredths.
C21_DistributionOrdered ==
    (anPc = "done" /\ data.scanResults # <<>>) =>
        LET output == Get(analytics).output
            dist == output.trackerCountDistribution
            n == Len(ReferenceCounts)
        IN  /\ dist.min = KthSmallest(ReferenceCounts, 1)
            /\ dist.max = KthSmallest(ReferenceCounts, n)
            /\ dist.median =
                   IF n % 2 = 1
                   THEN 100 * KthSmallest(ReferenceCounts, (n + 1) \div 2)
                   ELSE 50 * (KthSmallest(ReferenceCounts, n \div 2)
                                + KthSmallest(ReferenceCounts, n \div 2 + 1))
            /\ 100 * dist.min <= dist.median
            /\ dist.median <= 100 * dist.max
            /\ dist.mean = output.summary.averageTrackersPerSite

\* two sites, the first with two references and the second with none: the
\* median lies strictly between min and max
C21_Witness ==
    /\ anPc = "done"
    /\ ReferenceCounts = <<2, 0>>
    /\ Get(analytics).output.trackerCountDistribution
           = [min |-> 0, max |-> 2, median |-> 100, mean |-> 100]

\* the place of entry i of a frequency structure in its ranking: after the
\* entries of greater count and after the earlier entries of equal count
RankOf(counts, i) ==
    1 + Cardinality({j \in 1..Len(counts) : counts[j][2] > counts[i][2]})
      + Cardinality({j \in 1..(i - 1) : counts[j][2] = counts[i][2]})

\* list holds, place by place, the entries of counts ranked 1 to n
IsFirstRanked(list, counts, n) ==
    /\ Len(list) = (IF Len(counts) < n THEN Len(counts) ELSE n)
    /\ \A i \in 1..Len(counts) :
           RankOf(counts, i) <= n =>
               /\ list[RankOf(counts, i)].name = counts[i][1]
               /\ list[RankOf(counts, i)].count = counts[i][2]

\* the owner ranking of every listed group is that of the group's owners
GroupsFirstRanked(analysis, groupOwnerMap, n) ==
    IsSome(analysis) =>
        \A g \in 1..Len(Get(analysis)) :
            /\ MapHas(groupOwnerMap, Get(analysis)[g].key)
            /\ IsFirstRanked(Get(analysis)[g].topTrackerOwners,
                             SiteCounts(Get(MapGet(groupOwnerMap,
                                                   Get(analysis)[g].key))), n)

\* C22: every ranked list of the report holds the first N entries of its
\* frequency structure in descending order of count, entries of equal count
\* in the order in which the structure received them; N is 20 for the
\* rankings of domains, owners and categories and 5 for the owner ranking
\* of a category or country group.
C22_RankedListsAreFirstN ==
    (anPc = "done" /\ ~Get(analytics).threw) =>
        LET output == Get(analytics).output
            totals == Get(analytics).totals
        IN  /\ IsFirstRanked(output.topTrackerDomains,
                             SiteCounts(totals.trackerDomainSiteMap), 20)
            /\ IsFirstRanked(output.topTrackerOwners,
                             SiteCounts(totals.trackerOwnerSiteMap), 20)
            /\ IsFirstRanked(output.topTrackerCategories,
                             totals.trackerCategoryInstanceMap, 20)
            /\ GroupsFirstRanked(output.analysisByCategory,
                                 totals.categoryOwnerMap, 5)
            /\ GroupsFirstRanked(output.analysisByCountry,
                                 totals.countryOwnerMap, 5)

\* 21 trackers each seen on the first site, the shortest domain, the last
\* one the structures received, seen on the second site too: it is ranked
\* first, the domains of one site follow longest first, and the entry
\* ranked 21st is cut from the three global rankings; the category group
\* lists 5 of its 21 owners
C22_Witness ==
    /\ anPc = "done"
    /\ ~Get(analytics).threw
    /\ Len(data.allTrackers) = 21
    /\ data.scanResults[2].trackerDomains = <<RankedDomain(1)>>
    /\ LET output == Get(analytics).output
       IN  /\ Len(output.topTrackerDomains) = 20
           /\ output.topTrackerDomains[1].name = RankedDomain(1)
           /\ output.topTrackerDomains[1].count = 2
           /\ output.topTrackerDomains[2].name = RankedDomain(21)
           /\ output.topTrackerDomains[20].name = RankedDomain(3)
           /\ Len(output.topTrackerOwners) = 20
           /\ Len(output.topTrackerCategories) = 20
           /\ Len(Get(output.analysisByCategory)[1].topTrackerOwners) = 5
           /\ Get(output.analysisByCategory)[1].topTrackerOwners[1].name = "Owner 1"
           /\ Get(output.analysisByCategory)[1].topTrackerOwners[2].name = "Owner 21"

\* the references of scan result i that resolve in allTrackers
ResolvedReferences(i) ==
    {j \in 1..Len(data.scanResults[i].trackerDomains) :
        HasOwn(data.allTrackers, data.scanResults[i].trackerDomains[j])}

\* the scan results of group g that have a resolved reference, GroupOf being
\* "category" or "country"
GroupResults(GroupOf, g) ==
    {i \in 1..Len(data.scanResults) :
        /\ ResolvedReferences(i) # {}
        /\ g = (IF GroupOf = "category" THEN CategoryOf(data.scanResults[i])
                ELSE CountryOf(data.scanResults[i]))}

AllGroups(GroupOf) ==
    {IF GroupOf = "category" THEN CategoryOf(data.scanResults[i])
     ELSE CountryOf(data.scanResults[i]) : i \in 1..Len(data.scanResults)}

\* an analysis lists the groups that have a scan result with a resolved
\* reference and no other, each with the number of different domains of
\* these results and the number of their resolved references
GroupsCountResolvedSites(analysis, GroupOf) ==
    /\ IsSome(analysis) <=> \E g \in AllGroups(GroupOf) : GroupResults(GroupOf, g) # {}
    /\ IsSome(analysis) =>
           /\ \A g \in AllGroups(GroupOf) :
                  GroupResults(GroupOf, g) # {} =>
                      \E k \in 1..Len(Get(analysis)) : Get(analysis)[k].key = g
           /\ \A k \in 1..Len(Get(analysis)) :
                  LET listed == Get(analysis)[k]
                      sites == GroupResults(GroupOf, listed.key)
                  IN  /\ listed.siteCount =
                             Cardinality({data.scanResults[i].domain : i \in sites})
                      /\ listed.totalTrackerInstances =
                             Cardinality(UNION {{<<i, j>> : j \in ResolvedReferences(i)} :
                                                   i \in sites})
                      /\ listed.siteCount >= 1
                      /\ listed.totalTrackerInstances >= listed.siteCount

\* C29: in the report a site is in the site set of its category group and of
\* its country group only if one of its tracker references resolves in
\* allTrackers, and scan results of one domain count as one site: every
\* listed group has siteCount >= 1 and totalTrackerInstances >= siteCount,
\* and a site without a resolved reference is in no group.
C29_GroupsCountResolvedSites ==
    (anPc = "done" /\ ~Get(analytics).threw) =>
        /\ GroupsCountResolvedSites(Get(analytics).output.analysisByCategory,
                                    "category")
        /\ GroupsCountResolvedSites(Get(analytics).output.analysisByCountry,
                                    "country")
        /\ \A k \in 1..Len(Get(analytics).totals.categoryData) :
               Get(analytics).totals.categoryData[k][2].siteDomains
                   = {data.scanResults[i].domain :
                         i \in GroupResults("category",
                                            Get(analytics).totals.categoryData[k][1])}

\* the dictionary holds one tracker; the first site references it and a
\* missing one, the second site references the missing one only: one group
\* of one site and one reference, and no group for the second site
C29_Witness ==
    /\ anPc = "done"
    /\ Len(data.allTrackers) = 1
    /\ Len(data.scanResults) = 2
    /\ data.scanResults[1].domain = SiteA
    /\ data.scanResults[1].trackerDomains = <<TrackerA, TrackerB>>
    /\ data.scanResults[2].domain = SiteB
    /\ data.scanResults[2].trackerDomains = <<TrackerB>>
    /\ ~Get(analytics).threw
    /\ Len(Get(Get(analytics).output.analysisByCategory)) = 1
    /\ Get(Get(analytics).output.analysisByCategory)[1].siteCount = 1
    /\ Get(Get(analytics).output.analysisByCategory)[1].totalTrackerInstances = 1

\* two scan results of one domain and one country: one site, two references
C29_WitnessSharedDomain ==
    /\ anPc = "done"
    /\ Len(data.scanResults) = 2
    /\ data.scanResults[1].domain = data.scanResults[2].domain
    /\ ~Get(analytics).threw
    /\ IsSome(Get(analytics).output.analysisByCountry)
    /\ Len(Get(Get(analytics).output.analysisByCountry)) = 1
    /\ Get(Get(analytics).output.analysisByCountry)[1].siteCount = 1
    /\ Get(Get(analytics).output.analysisByCountry)[1].totalTrackerInstances = 2

(***************************************************************************)
(* Claims about identifyTrackers                                           *)
(***************************************************************************)
\* the registry key of the entry a resolving domain is given: the key the
\* index maps the normalized domain to, or else the key of the first index
\* entry that is a suffix of it
MatchedKey(domain, preparedData) ==
    LET normalizedMap == Get(preparedData).normalizedMap
        normDomain == normalizeDomain(domain)
        exact == MapGet(normalizedMap, normDomain)
    IN  IF IsSome(exact) /\ Get(exact) # <<>> THEN Get(exact)
        ELSE normalizedMap[FirstSuffixMatch(normDomain, normalizedMap)][2]

\* the page scanned by the run is the first result
ScannedPage == intermediateResults[1]

\* C23 as stated: identifyTrackers returns no registry entry more than once,
\* whatever hostnames the resource URLs have.
C23_EachEntryAtMostOnce ==
    (trPc = "ready" /\ intermediateResults # <<>>) =>
        \A i, j \in 1..Len(ScannedPage.trackers) :
            MatchedKey(ScannedPage.trackers[i].domain, prepared)
                = MatchedKey(ScannedPage.trackers[j].domain, prepared) => i = j

\* the positions of the resource URLs whose hostname is not empty, is not
\* the hostname of an earlier URL, and resolves
FirstResolving(resourceUrls, preparedData) ==
    SelectSeq([i \in 1..Len(resourceUrls) |-> i],
              LAMBDA i :
                  /\ IsSome(getHostname(resourceUrls[i]))
                  /\ Get(getHostname(resourceUrls[i])) # <<>>
                  /\ \A j \in 1..(i - 1) :
                         getHostname(resourceUrls[j]) # getHostname(resourceUrls[i])
                  /\ IsSome(findTrackerInfo(Get(getHostname(resourceUrls[i])),
                                            preparedData)))

\* C23 (amended): identifyTrackers returns one record for every distinct
\* resource hostname that resolves, in the order of first appearance, with
\* the entry the hostname resolves to; no hostname is returned twice, and a
\* registry entry is returned once for each distinct hostname resolving to
\* it.
C23_OneRecordPerResolvingHostname ==
    (trPc = "ready" /\ intermediateResults # <<>>) =>
        LET urls == ScannedPage.resourceUrls
            firsts == FirstResolving(urls, prepared)
        IN  /\ ScannedPage.trackers =
                   [k \in 1..Len(firsts) |->
                       [domain |-> Get(getHostname(urls[firsts[k]])),
                        info |-> Get(findTrackerInfo(
                                         Get(getHostname(urls[firsts[k]])),
                                         prepared))]]
            /\ \A i, j \in 1..Len(ScannedPage.trackers) :
                   ScannedPage.trackers[i].domain = ScannedPage.trackers[j].domain
                       => i = j

\* the registry holds "a" only and the page loads from "a" and from
\* "Www.a": two records, both with the entry of "a"
C23_Witness ==
    /\ trPc = "ready"
    /\ Len(trackerList.trackers) = 1
    /\ trackerList.trackers[1].key = TrackerA
    /\ intermediateResults # <<>>
    /\ ScannedPage.resourceUrls
           = <<Url(TRUE, <<"a">>), Url(TRUE, <<"W", "w", "w", ".", "a">>)>>
    /\ ScannedPage.trackers
           = <<[domain |-> <<"a">>, info |-> trackerList.trackers[1].info],
               [domain |-> <<"w", "w", "w", ".", "a">>,
                info |-> trackerList.trackers[1].info]>>

\* the domains of a list of sightings, place by place
DomainsOf(trackers) == [j \in 1..Len(trackers) |-> trackers[j].domain]

NoDuplicate(domains) ==
    \A i, j \in 1..Len(domains) : domains[i] = domains[j] => i = j

\* C26: identifyTrackers emits every hostname at most once, so the
\* trackerDomains that normalizeResults gives for a scanned page hold no
\* domain twice; normalizeResults removes no duplicate itself and keeps the
\* order: for every raw result, scanned or read from a file, trackerDomains
\* is the list of the domains of its trackers as they stand.
C26_NoDuplicateFromIdentify ==
    (rsPc = "normalized" /\ intermediateResults # <<>>) =>
        /\ NoDuplicate(DomainsOf(identifyTrackers(ScannedPage.resourceUrls,
                                                  prepared)))
        /\ ScannedPage.trackers
               = identifyTrackers(ScannedPage.resourceUrls, prepared)
        /\ NoDuplicate(Get(finalOutput).scanResults[1].trackerDomains)
        /\ Len(Get(finalOutput).scanResults) = Len(intermediateResults)
        /\ \A i \in 1..Len(intermediateResults) :
               Get(finalOutput).scanResults[i].trackerDomains
                   = DomainsOf(intermediateResults[i].trackers)

\* the page loads twice from one host and is given one sighting; the raw
\* result that follows lists a domain twice and keeps it twice
C26_Witness ==
    /\ rsPc = "normalized"
    /\ Len(intermediateResults) = 2
    /\ ScannedPage.resourceUrls = <<Url(TRUE, TrackerA), Url(TRUE, TrackerA)>>
    /\ Get(finalOutput).scanResults[1].trackerDomains = <<TrackerA>>
    /\ DomainsOf(intermediateResults[2].trackers) = <<TrackerA, TrackerA>>
    /\ Get(finalOutput).scanResults[2].trackerDomains = <<TrackerA, TrackerA>>

(***************************************************************************)
(* Claims about concurrent writers of the ledger                           *)
(***************************************************************************)
HoldsEntry(cache, entry) == \E i \in 1..Len(cache) : cache[i] = entry

\* C24: nothing serializes the writers of the ledger.  Of two writers that
\* upsert entries of different domains, when both upsert into the same
\* loaded ledger the ledger written last is the current one and lacks the
\* entry of the writer that wrote first; when the second upserts into the
\* ledger the first wrote, the current ledger holds both entries.
C24_LostUpdateUnlessSerialized ==
    (Len(installs) = 2 /\ installs[1].entry.domain # installs[2].entry.domain) =>
        LET current == readCacheFromFile(cacheFile)
        IN  /\ current = installs[2].written
            /\ HoldsEntry(current, installs[2].entry)
            /\ \/ installs[2].loaded = installs[1].loaded
               \/ installs[2].loaded = installs[1].written
            /\ installs[2].loaded = installs[1].loaded
                   => ~HoldsEntry(current, installs[1].entry)
            /\ installs[2].loaded = installs[1].written
                   => HoldsEntry(current, installs[1].entry)

\* both runs loaded the empty ledger; run 1 wrote the entry of one site,
\* then run 2 wrote the entry of the other: the file holds that one only
C24_Witness ==
    /\ Len(installs) = 2
    /\ installs[1].writer = 1
    /\ installs[1].loaded = <<>>
    /\ installs[2].loaded = <<>>
    /\ installs[1].entry = DomainCacheEntry(SiteA, 1, TRUE, None)
    /\ installs[2].entry = DomainCacheEntry(SiteB, 1, TRUE, None)
    /\ readCacheFromFile(cacheFile) = <<DomainCacheEntry(SiteB, 1, TRUE, None)>>

\* run 1 wrote before run 2 loaded: the file holds both entries
C24_WitnessSerialized ==
    /\ Len(installs) = 2
    /\ installs[1].writer = 1
    /\ installs[1].loaded = <<>>
    /\ installs[2].loaded = installs[1].written
    /\ readCacheFromFile(cacheFile)
           = <<DomainCacheEntry(SiteA, 1, TRUE, None),
               DomainCacheEntry(SiteB, 1, TRUE, None)>>

(***************************************************************************)
(* Claims about the domain loop of index.ts                                *)
(***************************************************************************)
\* the positions of the inputs handled so far that were attempted
AttemptedInputs ==
    SelectSeq([i \in 1..Len(decisions) |-> i], LAMBDA i : decisions[i].scanned)

\* the scan of the next input starts: every earlier input has been skipped
\* or scanned to its end, with its raw result pushed and, with the cache
\* enabled, its entry in the ledger and the ledger in the cache file
ScanStartsAfterPrevious ==
    (runPc # "scanning" /\ runPc' = "scanning") =>
        /\ runPc = "loop"
        /\ cursor' = cursor
        /\ Len(decisions) = cursor
        /\ Len(intermediateResults) = Len(AttemptedInputs)
        /\ cacheEnabled =>
              /\ readCacheFromFile(cacheFile) = currentCache
              /\ \A k \in 1..Len(AttemptedInputs) :
                     FirstIndexOf(decisions[AttemptedInputs[k]].domain,
                                  currentCache) # 0

\* inside a run the loop moves from an input to the next one, and the scan
\* that ends is the scan of that input
InputsInOrder ==
    (runPc # "idle" /\ runPc' # "idle") =>
        /\ cursor' \in {cursor, cursor + 1}
        /\ domainInputs' = domainInputs
        /\ cursor' = cursor + 1 =>
              /\ Len(decisions') = cursor + 1
              /\ decisions'[cursor + 1].domain
                     = Get(getHostnameSafe(domainInputs[cursor + 1]))
              /\ SubSeq(decisions', 1, cursor) = decisions
        /\ (runPc = "scanning" /\ runPc' = "loop") =>
              /\ cursor' = cursor + 1
              /\ Len(intermediateResults') = Len(intermediateResults) + 1
              /\ SubSeq(intermediateResults', 1, Len(intermediateResults))
                     = intermediateResults

\* the dataset is built once, after the last input, and lists the attempted
\* inputs in their order; the run that writes results writes that dataset
DatasetBuiltOnceAtEnd ==
    /\ (finalOutput' # finalOutput /\ IsSome(finalOutput')) =>
           /\ finalOutput = None
           /\ runPc = "loop"
           /\ cursor = Len(domainInputs)
           /\ Len(decisions) = Len(domainInputs)
           /\ Len(Get(finalOutput').scanResults) = Len(AttemptedInputs)
           /\ \A k \in 1..Len(AttemptedInputs) :
                  Get(finalOutput').scanResults[k].domain
                      = Get(getHostnameSafe(domainInputs[AttemptedInputs[k]]))
    /\ (runPc = "normalized" /\ runPc' = "idle") =>
           /\ IsSome(finalOutput)
           /\ resultsFile' = finalOutput
    /\ (runPc # "normalized" /\ runPc' = "idle") => resultsFile' = resultsFile

\* C25: sites are scanned one at a time in the order of the input: a scan
\* starts only when the scan and the cache update of every earlier input
\* are finished; the normalized dataset is built exactly once in a run that
\* completes, after every input has been attempted or skipped; and its
\* scanResults list the attempted inputs in the order of the input.
C25_OneAtATimeInInputOrder ==
    [][ScanStartsAfterPrevious /\ InputsInOrder /\ DatasetBuiltOnceAtEnd]_vars

\* two sites given second site first, both attempted: the dataset lists
\* them in that order
C25_Witness ==
    /\ runPc = "normalized"
    /\ domainInputs = <<Url(TRUE, SiteB), Url(TRUE, SiteA)>>
    /\ Len(AttemptedInputs) = 2
    /\ IsSome(finalOutput)
    /\ Get(finalOutput).scanResults[1].domain = SiteB
    /\ Get(finalOutput).scanResults[2].domain = SiteA

\* the first of two inputs is skipped for its entry in the ledger: the
\* dataset lists the second only
C25_WitnessSkipped ==
    /\ runPc = "normalized"
    /\ Len(domainInputs) = 2
    /\ AttemptedInputs = <<2>>
    /\ Len(Get(finalOutput).scanResults) = 1
    /\ Get(finalOutput).scanResults[1].domain
           = Get(getHostnameSafe(domainInputs[2]))

\* the raw results so far whose scan gave an error, and those without
ResultsWithError ==
    {k \in 1..Len(intermediateResults) : IsSome(intermediateResults[k].error)}

\* C28: between the iterations of the domain loop the three counters add up
\* to the number of inputs handled, the raw results are as many as
\* processedCount + errorCount, one for every attempted input (processedCount
\* of them without error and errorCount with one) and none for a skipped
\* input; with the cache enabled the ledger's entry of an attempted site has
\* success = true exactly when the last scan of the site gave no error.
C28_CountersMatchResults ==
    runPc \in {"loop", "normalized"} =>
        /\ processedCount + skippedCount + errorCount = cursor
        /\ Len(intermediateResults) = processedCount + errorCount
        /\ Len(intermediateResults) = Len(AttemptedInputs)
        /\ skippedCount = Len(decisions) - Len(AttemptedInputs)
        /\ errorCount = Cardinality(ResultsWithError)
        /\ processedCount = Len(intermediateResults) - Cardinality(ResultsWithError)
        /\ cacheEnabled =>
              \A k \in 1..Len(AttemptedInputs) :
                  LET domainName == decisions[AttemptedInputs[k]].domain
                      index == FirstIndexOf(domainName, currentCache)
                  IN  (\A l \in (k + 1)..Len(AttemptedInputs) :
                           decisions[AttemptedInputs[l]].domain # domainName)
                      => /\ index # 0
                         /\ currentCache[index].success
                                <=> ~IsSome(intermediateResults[k].error)
                         /\ currentCache[index].error
                                = intermediateResults[k].error

\* with the cache enabled the first of two inputs is skipped and the scan of
\* the second fails: one raw result, and a ledger entry with success = false
C28_Witness ==
    /\ runPc = "loop"
    /\ cacheEnabled
    /\ cursor = 2
    /\ skippedCount = 1
    /\ errorCount = 1
    /\ processedCount = 0
    /\ Len(intermediateResults) = 1
    /\ ~decisions[1].scanned
    /\ ~currentCache[FirstIndexOf(decisions[2].domain, currentCache)].success

\* two inputs of one site: the first scan fails, the second succeeds
C28_WitnessRetry ==
    /\ runPc = "loop"
    /\ cacheEnabled
    /\ cursor = 2
    /\ decisions[1].domain = decisions[2].domain
    /\ errorCount = 1
    /\ processedCount = 1
    /\ currentCache[FirstIndexOf(decisions[2].domain, currentCache)].success

(***************************************************************************)
(* Claims about the two aggregators                                        *)
(***************************************************************************)
\* every tracker domain of the raw results has one info at all its sightings
SameInfoAtEverySighting ==
    \A p, q \in Sightings :
        RawPair(p).domain = RawPair(q).domain => RawPair(p).info = RawPair(q).info

\* C30: for raw scan results, one or more, in which every tracker domain has
\* the same info at all its sightings, generateAnalytics of the raw results
\* and generateAnalyticsInternal of their normalizeResults give the same
\* summary, the same tracker-count distribution, the same ranked lists and
\* the same analyses by category and by country.
C30_AggregatorsAgree ==
    (/\ IsSome(rawAnalytics)
     /\ IsSome(analytics)
     /\ intermediateResults # <<>>
     /\ SameInfoAtEverySighting) =>
        /\ ~Get(rawAnalytics).threw
        /\ ~Get(analytics).threw
        /\ Get(rawAnalytics).output = Get(analytics).output

\* two sites, the first sighting both trackers and the second one of them
\* twice: both reports rank the shared tracker first and list the groups of
\* both sites
C30_Witness ==
    /\ IsSome(rawAnalytics)
    /\ IsSome(analytics)
    /\ Len(intermediateResults) = 2
    /\ intermediateResults[1].domain # intermediateResults[2].domain
    /\ Len(intermediateResults[1].trackers) = 2
    /\ intermediateResults[1].trackers[1].domain = TrackerB
    /\ intermediateResults[2].trackers
           = <<AgSighting(TrackerA, AgInfoA), AgSighting(TrackerA, AgInfoA)>>
    /\ SameInfoAtEverySighting
    /\ Get(rawAnalytics).output = Get(analytics).output
    /\ Get(analytics).output.topTrackerDomains[1].name = TrackerA
    /\ Get(analytics).output.summary.totalUniqueTrackerOwners = 2
    /\ Len(Get(Get(analytics).output.analysisByCategory)) = 2

\* a tracker domain sighted with two infos: the reports differ
C30_WitnessOtherInfo ==
    /\ IsSome(rawAnalytics)
    /\ IsSome(analytics)
    /\ ~SameInfoAtEverySighting
    /\ ~Get(analytics).threw
    /\ Get(rawAnalytics).output # Get(analytics).output

====
